---- MODULE Spec2Model ----
(***************************************************************************)
(* Model of the in-memory component search engine of utils/search.py:      *)
(* the tokenizer, the index builder, search, search_by_tag,                *)
(* get_suggestions and get_related_components.                             *)
(*                                                                         *)
(* A Python str is a sequence of characters; a character is a one-element  *)
(* atom.  The two ideographic characters of the keyword of the default     *)
(* catalog that means "input" are written NYUU and RYOKU; every other      *)
(* character outside ASCII is written U and its code point (U30C6).        *)
(***************************************************************************)
EXTENDS Integers, Sequences, FiniteSets, TLC

VARIABLES components, index, inverted_index, tag_index, hashseed, pc, op, args, ret,
          components_data, meta_file, earlier, session_state, last_set, n_calls, recorded

vars == <<components, index, inverted_index, tag_index, hashseed, pc, op, args, ret,
          components_data, meta_file, earlier, session_state, last_set, n_calls, recorded>>

\* the engine, the process it lives in and what it was constructed from
engine == <<components, index, inverted_index, tag_index, hashseed, components_data, meta_file>>

\* earlier: a search call the caller has kept, with the scores it returned,
\* to compare a later call with (None until the caller keeps one)
caller == <<earlier>>

\* the state manager: st.session_state; last_set, for each key, the value of
\* the latest set(key, value) of the caller and whether toggle_favorite,
\* update_demo_params, increment_view_count or clear_history worked on the key
\* since (None when the key was not set since the state was made, reset or
\* imported); n_calls, the calls of the run so far that change the session state;
\* recorded, the (key, value) of every set performed, in order, since the
\* history was last made empty (by the constructor, reset_state or clear_history)
session == <<session_state, last_set, n_calls, recorded>>

\* ------------------------------------------------------------------ bounds
\* longest catalog handed to the constructor
MaxCatalog == 2
\* largest limit passed to an operation (the smallest is MinLimit)
MaxLimit == 2
\* most calls of a run that change the session state
MaxCalls == 3
\* longest text handed to the tokenizer on its own
MaxText == 3

\* ------------------------------------------------------------- characters
\* Every character of the model, in code-point order.
Alphabet ==
    <<" ", "*", ".", "2", "A", "C", "I", "K", "M", "P", "_", "a", "b", "c", "d", "e", "f", "g", "h",
      "i", "k", "l", "m", "n", "o", "p", "r", "s", "t", "u", "v", "w", "x", "y", "z", "U3048",
      "U305F", "U3068", "U306A", "U306E", "U307E", "U307F", "U3081", "U308A", "U308C", "U30A2",
      "U30A3", "U30A4", "U30A6", "U30A7", "U30A8", "U30A9", "U30AA", "U30AB", "U30AD", "U30AF",
      "U30B0", "U30B2", "U30B3", "U30B7", "U30B8", "U30B9", "U30BB", "U30BF", "U30C0", "U30C1",
      "U30C3", "U30C6", "U30C7", "U30C8", "U30C9", "U30CA", "U30D0", "U30D1", "U30D3", "U30D5",
      "U30D6", "U30D7", "U30DC", "U30DE", "U30E0", "U30E1", "U30E3", "U30E5", "U30E7", "U30E9",
      "U30EA", "U30EB", "U30EC", "U30ED", "U30F3", "U30FC", "U4E00", "U4ED8", "U5024", "NYUU",
      "U5207", "U5217", "RYOKU", "U5358", "U53EF", "U56F2", "U56FA", "U5B57", "U5B9A", "U5B9F",
      "U5C55", "U6298", "U629E", "U6307", "U63A8", "U6570", "U6574", "U6587", "U65E5", "U6642",
      "U66FF", "U68D2", "U6A19", "U6BD4", "U7406", "U7684", "U793A", "U79FB", "U7A4D", "U7BC4",
      "U7D2F", "U7D30", "U7DDA", "U7F6E", "U80FD", "U884C", "U8868", "U8907", "U8A73", "U8ABF",
      "U8F03", "U9078", "U914D", "U9577", "U958B", "U9593", "U9759", "U9762">>

CharCode(c) == CHOOSE i \in 1..Len(Alphabet) : Alphabet[i] = c

\* [ぁ-んァ-ン一-龥]
JapaneseChars ==
    {"U3048", "U305F", "U3068", "U306A", "U306E", "U307E", "U307F", "U3081", "U308A", "U308C",
     "U30A2", "U30A3", "U30A4", "U30A6", "U30A7", "U30A8", "U30A9", "U30AA", "U30AB", "U30AD",
     "U30AF", "U30B0", "U30B2", "U30B3", "U30B7", "U30B8", "U30B9", "U30BB", "U30BF", "U30C0",
     "U30C1", "U30C3", "U30C6", "U30C7", "U30C8", "U30C9", "U30CA", "U30D0", "U30D1", "U30D3",
     "U30D5", "U30D6", "U30D7", "U30DC", "U30DE", "U30E0", "U30E1", "U30E3", "U30E5", "U30E7",
     "U30E9", "U30EA", "U30EB", "U30EC", "U30ED", "U30F3", "U4E00", "U4ED8", "U5024", "NYUU",
     "U5207", "U5217", "RYOKU", "U5358", "U53EF", "U56F2", "U56FA", "U5B57", "U5B9A", "U5B9F",
     "U5C55", "U6298", "U629E", "U6307", "U63A8", "U6570", "U6574", "U6587", "U65E5", "U6642",
     "U66FF", "U68D2", "U6A19", "U6BD4", "U7406", "U7684", "U793A", "U79FB", "U7A4D", "U7BC4",
     "U7D2F", "U7D30", "U7DDA", "U7F6E", "U80FD", "U884C", "U8868", "U8907", "U8A73", "U8ABF",
     "U8F03", "U9078", "U914D", "U9577", "U958B", "U9593", "U9759", "U9762"}

\* \w of a str pattern: letters, digits, underscore, and the letters of every script
WordChars ==
    {"2", "A", "C", "I", "K", "M", "P", "_", "a", "b", "c", "d", "e", "f", "g", "h", "i", "k", "l",
     "m", "n", "o", "p", "r", "s", "t", "u", "v", "w", "x", "y", "z", "U30FC"}
        \cup JapaneseChars

\* str.lower() of one character
LowerChar(c) ==
    CASE c = "A" -> "a"
      [] c = "C" -> "c"
      [] c = "I" -> "i"
      [] c = "K" -> "k"
      [] c = "M" -> "m"
      [] c = "P" -> "p"
      [] OTHER -> c

\* str.lower()
Lower(text) == [i \in 1..Len(text) |-> LowerChar(text[i])]

\* a in b, for two str
IsSubstring(a, b) ==
    \E i \in 0..(Len(b) - Len(a)) : SubSeq(b, i + 1, i + Len(a)) = a

\* b.startswith(a)
StartsWith(b, a) == Len(a) <= Len(b) /\ SubSeq(b, 1, Len(a)) = a

\* ------------------------------------------------- iteration order of a set
\* list(set(...)) iterates in the order of the hashes of the strings, which
\* the interpreter fixes per process (hash randomisation): hashseed selects
\* one of the orders.  Seed 0 iterates in ascending code-point order, every
\* other seed in descending order.
StrLess(a, b) ==
    \E k \in 1..(Len(a) + 1) :
        /\ k <= Len(b)
        /\ \A j \in 1..(k - 1) : a[j] = b[j]
        /\ (k = Len(a) + 1 \/ CharCode(a[k]) < CharCode(b[k]))

Seeds == {0, 1}

HashFirst(S, seed) ==
    IF seed = 0
    THEN CHOOSE x \in S : \A y \in S \ {x} : StrLess(x, y)
    ELSE CHOOSE x \in S : \A y \in S \ {x} : StrLess(y, x)

RECURSIVE SetToList(_, _)
SetToList(S, seed) ==
    IF S = {} THEN <<>>
    ELSE LET x == HashFirst(S, seed) IN <<x>> \o SetToList(S \ {x}, seed)

\* ---------------------------------------------------------------- tokenizer
\* re.findall of a character class repeated (+): the maximal runs, left to right
Runs(text, class) ==
    LET n == Len(text)
        IsRun(i, j) ==
            /\ i <= j
            /\ \A k \in i..j : text[k] \in class
            /\ (i = 1 \/ text[i - 1] \notin class)
            /\ (j = n \/ text[j + 1] \notin class)
    IN { SubSeq(text, p[1], p[2]) : p \in { q \in (1..n) \X (1..n) : IsRun(q[1], q[2]) } }

\* mutant of Bigrams: range(len(word)) in place of range(len(word) - 1), the
\* last slice is the last character alone
Bigrams_WithLastChar(word) ==
    { SubSeq(word, i, IF i < Len(word) THEN i + 1 ELSE i) : i \in 1..Len(word) }

\* word[i:i+2] for i in range(len(word) - 1)
Bigrams(word) == { SubSeq(word, i, i + 1) : i \in 1..(Len(word) - 1) }

\* the set the tokenizer de-duplicates (set(tokens))
TokenSet(text) ==
    IF text = <<>> THEN {}
    ELSE LET lowered == Lower(text)
         IN Runs(lowered, WordChars) \cup
            UNION { Bigrams(word) : word \in Runs(lowered, JapaneseChars) }

\* SearchEngine._tokenize
Tokenize(text, seed) == SetToList(TokenSet(text), seed)

\* --------------------------------------------------------------- the index
\* An insertion-ordered dict is the sequence of its entries, in insertion
\* order: a key enters the dict the first time the code stores under it.
\* inverted_index: <<[token, posts]>>, posts: <<[comp_id, fields]>>, fields a list.

\* the concatenation of the lists of ss, in order
RECURSIVE Flatten(_)
Flatten(ss) ==
    IF ss = <<>> THEN <<>>
    ELSE IF Len(ss) = 1 THEN ss[1]
    ELSE LET half == Len(ss) \div 2
         IN Flatten(SubSeq(ss, 1, half)) \o Flatten(SubSeq(ss, half + 1, Len(ss)))

\* the distinct elements of s, each at the place of its first occurrence
FirstOccurrences(s) ==
    LET firsts == SelectSeq([i \in 1..Len(s) |-> i],
                            LAMBDA i : \A j \in 1..(i - 1) : s[j] # s[i])
    IN [k \in 1..Len(firsts) |-> s[firsts[k]]]

HasToken(inv, token) == \E i \in 1..Len(inv) : inv[i].token = token

Posts(inv, token) == inv[CHOOSE i \in 1..Len(inv) : inv[i].token = token].posts

GetList(component, field) == IF field \in DOMAIN component THEN component[field] ELSE <<>>

\* the (token, comp_id, field) the innermost loop stores, for one text of a field
TextPostings(text, comp_id, field, seed) ==
    LET tokens == Tokenize(text, seed)
    IN [i \in 1..Len(tokens) |-> [token |-> tokens[i], comp_id |-> comp_id, field |-> field]]

searchable_fields == <<"id", "name", "description", "category">>

\* for field in searchable_fields: if field in component: ...
FieldPostings(component, seed) ==
    Flatten([f \in 1..Len(searchable_fields) |->
                IF searchable_fields[f] \in DOMAIN component
                THEN TextPostings(component[searchable_fields[f]], component.id,
                                  searchable_fields[f], seed)
                ELSE <<>>])

\* for keyword in component.get('keywords', []): ...
KeywordPostings(component, seed) ==
    LET keywords == GetList(component, "keywords")
    IN Flatten([k \in 1..Len(keywords) |->
                    TextPostings(keywords[k], component.id, "keywords", seed)])

\* mutant of ComponentPostings: the tags are tokenized into the inverted index
\* as well, under the field name tags
ComponentPostings_WithTags(component, seed) ==
    FieldPostings(component, seed) \o KeywordPostings(component, seed)
        \o Flatten([k \in 1..Len(GetList(component, "tags")) |->
                        TextPostings(GetList(component, "tags")[k], component.id, "tags", seed)])

\* SearchEngine._add_to_inverted_index: what it stores for one component, in order
ComponentPostings(component, seed) ==
    FieldPostings(component, seed) \o KeywordPostings(component, seed)

\* the dict of dicts of lists that results from storing the postings in order:
\* inverted_index[token][comp_id].append(field)
InvertedOf(postings) ==
    LET tokens == FirstOccurrences([i \in 1..Len(postings) |-> postings[i].token])
        PostsOf(token) ==
            LET mine == SelectSeq(postings, LAMBDA p : p.token = token)
                ids == FirstOccurrences([i \in 1..Len(mine) |-> mine[i].comp_id])
                FieldsOf(id) ==
                    LET hits == SelectSeq(mine, LAMBDA p : p.comp_id = id)
                    IN [i \in 1..Len(hits) |-> hits[i].field]
            IN [c \in 1..Len(ids) |-> [comp_id |-> ids[c], fields |-> FieldsOf(ids[c])]]
    IN [t \in 1..Len(tokens) |-> [token |-> tokens[t], posts |-> PostsOf(tokens[t])]]

\* self.inverted_index after the loop of _build_index over comps
BuildInverted(comps, seed) ==
    InvertedOf(Flatten([i \in 1..Len(comps) |-> ComponentPostings(comps[i], seed)]))

\* self.index[comp_id] = comp, in catalog order: the last record of an id stays
BuildIdIndex(comps) ==
    [id \in { comps[i].id : i \in 1..Len(comps) } |->
        comps[CHOOSE i \in 1..Len(comps) :
                /\ comps[i].id = id
                /\ \A j \in (i + 1)..Len(comps) : comps[j].id # id]]

\* ids of the records of comps, in order, once per occurrence of tag in their tags
RECURSIVE TagPostings(_, _)
TagPostings(comps, tag) ==
    IF comps = <<>> THEN <<>>
    ELSE LET tags == GetList(Head(comps), "tags")
             hits == SelectSeq(tags, LAMBDA x : x = tag)
         IN [i \in 1..Len(hits) |-> Head(comps).id] \o TagPostings(Tail(comps), tag)

\* self.tag_index after the loop of _build_index
BuildTagIndex(comps) ==
    LET AllTags == UNION { { GetList(comps[i], "tags")[k] : k \in 1..Len(GetList(comps[i], "tags")) } :
                           i \in 1..Len(comps) }
    IN [tag \in AllTags |-> TagPostings(comps, tag)]

\* ------------------------------------------------------------------ search
\* An optional argument: absent (None), or given with a value.
None == [given |-> FALSE]

Some(v) == [given |-> TRUE, val |-> v]

\* truth value of an optional str or list argument: None, "" and [] are false
Truthy(o) == o.given /\ o.val # <<>>

\* One hit is one pass of a loop "for comp_id, fields in ....items()": the
\* record, the fields list, and the weight (2 exact, 1 partial).
PostHits(posts, weight) ==
    [i \in 1..Len(posts) |->
        [comp_id |-> posts[i].comp_id, fields |-> posts[i].fields, weight |-> weight]]

\* mutant of ExactHits: a key counts when the token is a substring of it
ExactHits_Substring(inv, token) ==
    Flatten([i \in 1..Len(inv) |->
                IF IsSubstring(token, inv[i].token) THEN PostHits(inv[i].posts, 2) ELSE <<>>])

\* if token in self.inverted_index: ...
ExactHits(inv, token) ==
    IF HasToken(inv, token) THEN PostHits(Posts(inv, token), 2) ELSE <<>>

\* mutant of PartialHits: only "token in index_token", without "index_token in token"
PartialHits_QueryInToken(inv, token) ==
    Flatten([i \in 1..Len(inv) |->
                IF IsSubstring(token, inv[i].token) THEN PostHits(inv[i].posts, 1) ELSE <<>>])

\* for index_token in self.inverted_index: if token in index_token or index_token in token: ...
PartialHits(inv, token) ==
    Flatten([i \in 1..Len(inv) |->
                IF IsSubstring(token, inv[i].token) \/ IsSubstring(inv[i].token, token)
                THEN PostHits(inv[i].posts, 1)
                ELSE <<>>])

\* mutant of TokenHits: PARTIAL mode runs the partial pass in place of the
\* exact pass, and the partial pass skips the key equal to the token
TokenHits_PartialSkipsExact(inv, token, mode) ==
    IF mode = "PARTIAL"
    THEN Flatten([i \in 1..Len(inv) |->
                    IF /\ inv[i].token # token
                       /\ (IsSubstring(token, inv[i].token) \/ IsSubstring(inv[i].token, token))
                    THEN PostHits(inv[i].posts, 1)
                    ELSE <<>>])
    ELSE ExactHits(inv, token)

\* mutant of TokenHits: the passes exclude each other (if / else), a token
\* that is a key scores in PARTIAL mode by the partial pass alone
TokenHits_PartialOnly(inv, token, mode) ==
    IF mode = "PARTIAL" THEN PartialHits(inv, token) ELSE ExactHits(inv, token)

\* body of "for token in query_tokens": the exact pass, then the partial pass
TokenHits(inv, token, mode) ==
    ExactHits(inv, token) \o (IF mode = "PARTIAL" THEN PartialHits(inv, token) ELSE <<>>)

RECURSIVE SumPoints(_)
SumPoints(hits) ==
    IF hits = <<>> THEN 0
    ELSE Len(Head(hits).fields) * Head(hits).weight + SumPoints(Tail(hits))

Range(s) == { s[i] : i \in 1..Len(s) }

\* mutant of ScoresOf: matched_fields[comp_id] = set(fields) when the record
\* is first scored, without the update(fields) of the later hits
ScoresOf_FirstHitFields(hits) ==
    LET ids == FirstOccurrences([i \in 1..Len(hits) |-> hits[i].comp_id])
        Mine(id) == SelectSeq(hits, LAMBDA h : h.comp_id = id)
    IN [c \in 1..Len(ids) |->
            [comp_id |-> ids[c],
             score |-> SumPoints(Mine(ids[c])),
             fields |-> Range(Mine(ids[c])[1].fields)]]

\* scores and matched_fields share their keys: one insertion-ordered dict,
\* entries [comp_id, score, fields], fields the set matched_fields[comp_id];
\* scores[comp_id] += len(fields) * weight; matched_fields[comp_id].update(fields)
ScoresOf(hits) ==
    LET ids == FirstOccurrences([i \in 1..Len(hits) |-> hits[i].comp_id])
        Mine(id) == SelectSeq(hits, LAMBDA h : h.comp_id = id)
    IN [c \in 1..Len(ids) |->
            [comp_id |-> ids[c],
             score |-> SumPoints(Mine(ids[c])),
             fields |-> UNION { Range(Mine(ids[c])[i].fields) : i \in 1..Len(Mine(ids[c])) }]]

\* scores and matched_fields after "for token in query_tokens"
ScoreTokens(inv, tokens, mode) ==
    ScoresOf(Flatten([t \in 1..Len(tokens) |-> TokenHits(inv, tokens[t], mode)]))

\* not (category_filter and comp.get('category') != category_filter)
PassesCategoryFilter(comp, category_filter) ==
    ~(Truthy(category_filter)
        /\ ("category" \notin DOMAIN comp \/ comp.category # category_filter.val))

\* mutant of PassesTagFilter: all(...) in place of any(...)
PassesTagFilter_All(comp, tag_filter) ==
    ~(Truthy(tag_filter)
        /\ LET comp_tags == Range(GetList(comp, "tags"))
           IN ~(\A k \in 1..Len(tag_filter.val) : tag_filter.val[k] \in comp_tags))

\* not (tag_filter and not any(tag in comp_tags for tag in tag_filter))
PassesTagFilter(comp, tag_filter) ==
    ~(Truthy(tag_filter)
        /\ LET comp_tags == Range(GetList(comp, "tags"))
           IN ~(\E k \in 1..Len(tag_filter.val) : tag_filter.val[k] \in comp_tags))

\* filtered_scores: the entries of scores that are not skipped, in the order of scores
FilterScores(scores, idx, category_filter, tag_filter) ==
    SelectSeq(scores, LAMBDA e :
        /\ PassesCategoryFilter(idx[e.comp_id], category_filter)
        /\ PassesTagFilter(idx[e.comp_id], tag_filter))

\* mutant of InsertByScore: reverse=True left out, ascending order
RECURSIVE InsertByScore_Ascending(_, _)
InsertByScore_Ascending(sorted, e) ==
    IF sorted = <<>> THEN <<e>>
    ELSE IF Head(sorted).score <= e.score
         THEN <<Head(sorted)>> \o InsertByScore_Ascending(Tail(sorted), e)
         ELSE <<e>> \o sorted

\* mutant of SortByScore: the entries are left in the order they were scored
SortByScore_Unsorted(items) == items

\* sorted(..., key=score, reverse=True) is stable: equal scores keep their order
RECURSIVE InsertByScore(_, _)
InsertByScore(sorted, e) ==
    IF sorted = <<>> THEN <<e>>
    ELSE IF Head(sorted).score >= e.score
         THEN <<Head(sorted)>> \o InsertByScore(Tail(sorted), e)
         ELSE <<e>> \o sorted

RECURSIVE SortByScore(_)
SortByScore(items) ==
    IF items = <<>> THEN <<>>
    ELSE InsertByScore(SortByScore(SubSeq(items, 1, Len(items) - 1)), items[Len(items)])

\* mutant of SlicePrefix: s[:limit + 1]
SlicePrefix_OffByOne(s, limit) ==
    IF limit + 1 >= 0
    THEN SubSeq(s, 1, IF limit + 1 < Len(s) THEN limit + 1 ELSE Len(s))
    ELSE SubSeq(s, 1, IF Len(s) + limit + 1 > 0 THEN Len(s) + limit + 1 ELSE 0)

\* s[:limit]: a negative limit drops the last -limit elements
SlicePrefix(s, limit) ==
    IF limit >= 0
    THEN SubSeq(s, 1, IF limit < Len(s) THEN limit ELSE Len(s))
    ELSE SubSeq(s, 1, IF Len(s) + limit > 0 THEN Len(s) + limit ELSE 0)

Marker == <<"*", "*">>

\* mutant of Sub: the replacement is the token, not the text matched
\* (pattern.sub(f"**{token}**", text)): the case of the text is lost
RECURSIVE Sub_TokenForMatch(_, _)
Sub_TokenForMatch(text, token) ==
    IF Len(text) < Len(token) THEN text
    ELSE IF Lower(SubSeq(text, 1, Len(token))) = Lower(token)
         THEN Marker \o token \o Marker
                \o Sub_TokenForMatch(SubSeq(text, Len(token) + 1, Len(text)), token)
         ELSE <<Head(text)>> \o Sub_TokenForMatch(Tail(text), token)

\* re.compile(re.escape(token), re.IGNORECASE).sub(lambda m: f"**{m.group()}**", text)
RECURSIVE Sub(_, _)
Sub(text, token) ==
    IF Len(text) < Len(token) THEN text
    ELSE IF Lower(SubSeq(text, 1, Len(token))) = Lower(token)
         THEN Marker \o SubSeq(text, 1, Len(token)) \o Marker
                \o Sub(SubSeq(text, Len(token) + 1, Len(text)), token)
         ELSE <<Head(text)>> \o Sub(Tail(text), token)

RECURSIVE HighlightText(_, _)
HighlightText(text, tokens) ==
    IF tokens = <<>> THEN text
    ELSE HighlightText(Sub(text, Head(tokens)), Tail(tokens))

\* SearchEngine._generate_highlights
GenerateHighlights(component, query_tokens) ==
    [field \in { f \in {"name", "description"} :
                    /\ f \in DOMAIN component
                    /\ HighlightText(component[f], query_tokens) # component[f] } |->
        HighlightText(component[field], query_tokens)]

\* list(matched_fields[comp_id]): the iteration order of a set of field names
FieldOrder == <<"category", "description", "id", "keywords", "name">>

ListOfFields(S, seed) ==
    LET asc == SelectSeq(FieldOrder, LAMBDA f : f \in S)
    IN IF seed = 0 THEN asc ELSE [i \in 1..Len(asc) |-> asc[Len(asc) + 1 - i]]

\* SearchResult(...) of one entry of sorted_results
MakeResult(e, idx, query_tokens, seed) ==
    LET comp == idx[e.comp_id]
    IN [component_id |-> e.comp_id,
        name |-> comp.name,
        category |-> comp.category,
        description |-> comp.description,
        score |-> e.score,
        matched_fields |-> ListOfFields(e.fields, seed),
        highlights |-> GenerateHighlights(comp, query_tokens)]

\* query_tokens = self._tokenize(query.lower())
QueryTokens(query, seed) == Tokenize(Lower(query), seed)

\* scores after the scoring loop
Scores(inv, query, mode, seed) == ScoreTokens(inv, QueryTokens(query, seed), mode)

\* filtered_scores
Filtered(idx, inv, seed, query, mode, category_filter, tag_filter) ==
    FilterScores(Scores(inv, query, mode, seed), idx, category_filter, tag_filter)

\* SearchEngine.search, on the engine (idx, inv) of a process with hash order seed
SearchOn(idx, inv, seed, query, mode, limit, category_filter, tag_filter) ==
    IF query = <<>> THEN <<>>
    ELSE LET sorted_results ==
                 SortByScore(Filtered(idx, inv, seed, query, mode, category_filter, tag_filter))
             top == SlicePrefix(sorted_results, limit)
         IN [i \in 1..Len(top) |-> MakeResult(top[i], idx, QueryTokens(query, seed), seed)]

\* ------------------------------------------------- tags, suggestions, related
\* SearchEngine.search_by_tag
SearchByTagOn(tagidx, seed, tags) ==
    SetToList(UNION { Range(tagidx[tags[k]]) : k \in { j \in 1..Len(tags) : tags[j] \in DOMAIN tagidx } },
              seed)

StPrefix == <<"s", "t", ".">>

\* SuggestLoop comparing the name as written, without lower-casing it
RECURSIVE SuggestLoop_CaseSensitive(_, _, _, _)
SuggestLoop_CaseSensitive(comps, prefix_lower, limit, suggestions) ==
    IF comps = <<>> THEN suggestions
    ELSE LET name == Head(comps).name
         IN IF StartsWith(name, StPrefix \o prefix_lower) \/ IsSubstring(prefix_lower, name)
            THEN LET s1 == Append(suggestions, Head(comps).name)
                 IN IF Len(s1) >= limit THEN s1
                    ELSE SuggestLoop_CaseSensitive(Tail(comps), prefix_lower, limit, s1)
            ELSE SuggestLoop_CaseSensitive(Tail(comps), prefix_lower, limit, suggestions)

\* the loop of get_suggestions over the records not yet visited
RECURSIVE SuggestLoop(_, _, _, _)
SuggestLoop(comps, prefix_lower, limit, suggestions) ==
    IF comps = <<>> THEN suggestions
    ELSE LET name == Lower(Head(comps).name)
         IN IF StartsWith(name, StPrefix \o prefix_lower) \/ IsSubstring(prefix_lower, name)
            THEN LET s1 == Append(suggestions, Head(comps).name)
                 IN IF Len(s1) >= limit THEN s1
                    ELSE SuggestLoop(Tail(comps), prefix_lower, limit, s1)
            ELSE SuggestLoop(Tail(comps), prefix_lower, limit, suggestions)

\* SearchEngine.get_suggestions
GetSuggestionsOn(comps, prefix, limit) ==
    IF prefix = <<>> THEN <<>>
    ELSE SlicePrefix(SuggestLoop(comps, Lower(prefix), limit, <<>>), limit)

InSeq(x, s) == \E i \in 1..Len(s) : s[i] = x

\* the loop over component['related']: [returned, related], returned when the
\* loop left the function with "return related"
RECURSIVE RelatedLoop(_, _, _, _)
RelatedLoop(rel_ids, idx, limit, related) ==
    IF rel_ids = <<>> THEN [returned |-> FALSE, related |-> related]
    ELSE LET rel_id == Head(rel_ids)
         IN IF rel_id \in DOMAIN idx /\ ~InSeq(rel_id, related)
            THEN LET r1 == Append(related, rel_id)
                 IN IF Len(r1) >= limit THEN [returned |-> TRUE, related |-> r1]
                    ELSE RelatedLoop(Tail(rel_ids), idx, limit, r1)
            ELSE RelatedLoop(Tail(rel_ids), idx, limit, related)

\* CategoryLoop without the test for ids already collected
RECURSIVE CategoryLoop_NoDedup(_, _, _, _, _)
CategoryLoop_NoDedup(comps, component_id, component, limit, related) ==
    IF comps = <<>> THEN related
    ELSE LET comp == Head(comps)
         IN IF comp.id # component_id /\ comp.category = component.category
            THEN LET r1 == Append(related, comp.id)
                 IN IF Len(r1) >= limit THEN r1
                    ELSE CategoryLoop_NoDedup(Tail(comps), component_id, component, limit, r1)
            ELSE CategoryLoop_NoDedup(Tail(comps), component_id, component, limit, related)

\* the loop over self.components: records of the same category
RECURSIVE CategoryLoop(_, _, _, _, _)
CategoryLoop(comps, component_id, component, limit, related) ==
    IF comps = <<>> THEN related
    ELSE LET comp == Head(comps)
         IN IF comp.id # component_id /\ comp.category = component.category
                /\ ~InSeq(comp.id, related)
            THEN LET r1 == Append(related, comp.id)
                 IN IF Len(r1) >= limit THEN r1
                    ELSE CategoryLoop(Tail(comps), component_id, component, limit, r1)
            ELSE CategoryLoop(Tail(comps), component_id, component, limit, related)

\* SearchEngine.get_related_components
GetRelatedOn(comps, idx, component_id, limit) ==
    IF component_id \notin DOMAIN idx THEN <<>>
    ELSE LET component == idx[component_id]
             first == IF "related" \in DOMAIN component
                      THEN RelatedLoop(component.related, idx, limit, <<>>)
                      ELSE [returned |-> FALSE, related |-> <<>>]
         IN IF first.returned THEN first.related
            ELSE CategoryLoop(comps, component_id, component, limit, first.related)

\* ------------------------------------------------------ catalogs and inputs
\* Component records in the shape of _create_default_components.
\* {"id": "pic", "name": "st.pic", "category": "media", "description": "Art NYUU RYOKU",
\*  "tags": ["basic", "input"], "keywords": ["NYUU RYOKU"], "related": ["pic", "chart"]}
\* lists itself in related; its keyword repeats a token of the description
RecPic ==
    [id |-> <<"p", "i", "c">>, name |-> <<"s", "t", ".", "p", "i", "c">>, category |-> <<"m", "e", "d", "i", "a">>,
     description |-> <<"A", "r", "t", " ", "NYUU", "RYOKU">>,
     tags |-> <<<<"b", "a", "s", "i", "c">>, <<"i", "n", "p", "u", "t">>>>,
     keywords |-> <<<<"NYUU", "RYOKU">>>>,
     related |-> <<<<"p", "i", "c">>, <<"c", "h", "a", "r", "t">>>>]

\* {"id": "chart", "name": "st.chart", "category": "chart", "description": "Chart",
\*  "tags": ["basic"], "keywords": ["bar chart", "chart"]}
\* two keywords yield the token chart; no related list
RecChart ==
    [id |-> <<"c", "h", "a", "r", "t">>, name |-> <<"s", "t", ".", "c", "h", "a", "r", "t">>, category |-> <<"c", "h", "a", "r", "t">>,
     description |-> <<"C", "h", "a", "r", "t">>,
     tags |-> <<<<"b", "a", "s", "i", "c">>>>,
     keywords |-> <<<<"b", "a", "r", " ", "c", "h", "a", "r", "t">>, <<"c", "h", "a", "r", "t">>>>]

\* {"id": "map", "name": "st.map", "category": "media", "description": "art map",
\*  "tags": ["input"], "keywords": [], "related": ["zz", "pic"]}
\* same category as "pic"; its related list names an id that is in no catalog
RecMap ==
    [id |-> <<"m", "a", "p">>, name |-> <<"s", "t", ".", "m", "a", "p">>, category |-> <<"m", "e", "d", "i", "a">>,
     description |-> <<"a", "r", "t", " ", "m", "a", "p">>,
     tags |-> <<<<"i", "n", "p", "u", "t">>>>,
     keywords |-> <<>>,
     related |-> <<<<"z", "z">>, <<"p", "i", "c">>>>]

\* {"id": "pic", "name": "st.Pic2", "category": "chart", "description": "Pic 2",
\*  "tags": [], "keywords": ["pic"]}
\* a second record of id "pic" (_build_index accepts it)
RecPic2 ==
    [id |-> <<"p", "i", "c">>, name |-> <<"s", "t", ".", "P", "i", "c", "2">>, category |-> <<"c", "h", "a", "r", "t">>,
     description |-> <<"P", "i", "c", " ", "2">>,
     tags |-> <<>>,
     keywords |-> <<<<"p", "i", "c">>>>]

\* {"name": "st.chart", "category": "chart", "description": "Chart", "tags": ["basic"]}
\* a record without id
RecNoId ==
    [name |-> <<"s", "t", ".", "c", "h", "a", "r", "t">>, category |-> <<"c", "h", "a", "r", "t">>,
     description |-> <<"C", "h", "a", "r", "t">>,
     tags |-> <<<<"b", "a", "s", "i", "c">>>>]

RecordPool == {RecPic, RecChart, RecMap, RecPic2, RecNoId}

\* components_data: every non-empty list of at most MaxCatalog records of the pool
Catalogs == UNION { [1..n -> RecordPool] : n \in 1..MaxCatalog }

\* "", "art", "chart", "Art pic", "art bar", "NYUU RYOKU", "zz"
Queries == {<<>>, <<"a", "r", "t">>, <<"c", "h", "a", "r", "t">>, <<"A", "r", "t", " ", "p", "i", "c">>,
            <<"a", "r", "t", " ", "b", "a", "r">>, <<"NYUU", "RYOKU">>, <<"z", "z">>}

Modes == {"EXACT", "PARTIAL"}

\* a negative limit, 0, and the positive limits up to MaxLimit
Limits == (0 - 1)..MaxLimit

\* None, "", "media", "zz"
CategoryFilters == {None, Some(<<>>), Some(<<"m", "e", "d", "i", "a">>), Some(<<"z", "z">>)}

\* None, [], ["zz", "input"]
TagFilters == {None, Some(<<>>), Some(<<<<"z", "z">>, <<"i", "n", "p", "u", "t">>>>)}

\* [], ["zz", "input"], ["basic", "input"]
TagLists == {<<>>, <<<<"z", "z">>, <<"i", "n", "p", "u", "t">>>>, <<<<"b", "a", "s", "i", "c">>, <<"i", "n", "p", "u", "t">>>>}

\* "", "p", "Ma", "zz"
Prefixes == {<<>>, <<"p">>, <<"M", "a">>, <<"z", "z">>}

\* "pic", "chart", "map", "zz"
ComponentIds == {<<"p", "i", "c">>, <<"c", "h", "a", "r", "t">>, <<"m", "a", "p">>, <<"z", "z">>}

\* the records of _create_default_components, in order
\* 'id': 'text_input', 'name': 'st.text_input', 'category': 'input_widgets', 'description': '単一行のテキスト入力フィールド', 'tags': ['input', 'text', 'form', 'basic'], 'keywords': ['テキスト', '入力', '文字列', 'フォーム']
Default_text_input ==
    [id |-> <<"t", "e", "x", "t", "_", "i", "n", "p", "u", "t">>,
     name |-> <<"s", "t", ".", "t", "e", "x", "t", "_", "i", "n", "p", "u", "t">>,
     category |-> <<"i", "n", "p", "u", "t", "_", "w", "i", "d", "g", "e", "t", "s">>,
     description |-> <<"U5358", "U4E00", "U884C", "U306E", "U30C6", "U30AD", "U30B9", "U30C8", "NYUU", "RYOKU", "U30D5", "U30A3", "U30FC", "U30EB", "U30C9">>,
     tags |-> <<<<"i", "n", "p", "u", "t">>, <<"t", "e", "x", "t">>, <<"f", "o", "r", "m">>, <<"b", "a", "s", "i", "c">>>>,
     keywords |-> <<<<"U30C6", "U30AD", "U30B9", "U30C8">>, <<"NYUU", "RYOKU">>, <<"U6587", "U5B57", "U5217">>, <<"U30D5", "U30A9", "U30FC", "U30E0">>>>]

\* 'id': 'number_input', 'name': 'st.number_input', 'category': 'input_widgets', 'description': '数値入力フィールド', 'tags': ['input', 'number', 'form', 'basic'], 'keywords': ['数値', '入力', '数字', 'フォーム']
Default_number_input ==
    [id |-> <<"n", "u", "m", "b", "e", "r", "_", "i", "n", "p", "u", "t">>,
     name |-> <<"s", "t", ".", "n", "u", "m", "b", "e", "r", "_", "i", "n", "p", "u", "t">>,
     category |-> <<"i", "n", "p", "u", "t", "_", "w", "i", "d", "g", "e", "t", "s">>,
     description |-> <<"U6570", "U5024", "NYUU", "RYOKU", "U30D5", "U30A3", "U30FC", "U30EB", "U30C9">>,
     tags |-> <<<<"i", "n", "p", "u", "t">>, <<"n", "u", "m", "b", "e", "r">>, <<"f", "o", "r", "m">>, <<"b", "a", "s", "i", "c">>>>,
     keywords |-> <<<<"U6570", "U5024">>, <<"NYUU", "RYOKU">>, <<"U6570", "U5B57">>, <<"U30D5", "U30A9", "U30FC", "U30E0">>>>]

\* 'id': 'text_area', 'name': 'st.text_area', 'category': 'input_widgets', 'description': '複数行のテキスト入力エリア', 'tags': ['input', 'text', 'multiline', 'form'], 'keywords': ['テキストエリア', '複数行', '入力', '長文']
Default_text_area ==
    [id |-> <<"t", "e", "x", "t", "_", "a", "r", "e", "a">>,
     name |-> <<"s", "t", ".", "t", "e", "x", "t", "_", "a", "r", "e", "a">>,
     category |-> <<"i", "n", "p", "u", "t", "_", "w", "i", "d", "g", "e", "t", "s">>,
     description |-> <<"U8907", "U6570", "U884C", "U306E", "U30C6", "U30AD", "U30B9", "U30C8", "NYUU", "RYOKU", "U30A8", "U30EA", "U30A2">>,
     tags |-> <<<<"i", "n", "p", "u", "t">>, <<"t", "e", "x", "t">>, <<"m", "u", "l", "t", "i", "l", "i", "n", "e">>, <<"f", "o", "r", "m">>>>,
     keywords |-> <<<<"U30C6", "U30AD", "U30B9", "U30C8", "U30A8", "U30EA", "U30A2">>, <<"U8907", "U6570", "U884C">>, <<"NYUU", "RYOKU">>, <<"U9577", "U6587">>>>]

\* 'id': 'date_input', 'name': 'st.date_input', 'category': 'input_widgets', 'description': '日付選択ウィジェット', 'tags': ['input', 'date', 'calendar', '時間'], 'keywords': ['日付', 'カレンダー', '日時', '選択']
Default_date_input ==
    [id |-> <<"d", "a", "t", "e", "_", "i", "n", "p", "u", "t">>,
     name |-> <<"s", "t", ".", "d", "a", "t", "e", "_", "i", "n", "p", "u", "t">>,
     category |-> <<"i", "n", "p", "u", "t", "_", "w", "i", "d", "g", "e", "t", "s">>,
     description |-> <<"U65E5", "U4ED8", "U9078", "U629E", "U30A6", "U30A3", "U30B8", "U30A7", "U30C3", "U30C8">>,
     tags |-> <<<<"i", "n", "p", "u", "t">>, <<"d", "a", "t", "e">>, <<"c", "a", "l", "e", "n", "d", "a", "r">>, <<"U6642", "U9593">>>>,
     keywords |-> <<<<"U65E5", "U4ED8">>, <<"U30AB", "U30EC", "U30F3", "U30C0", "U30FC">>, <<"U65E5", "U6642">>, <<"U9078", "U629E">>>>]

\* 'id': 'checkbox', 'name': 'st.checkbox', 'category': 'select_widgets', 'description': 'チェックボックス', 'tags': ['select', 'boolean', 'toggle', 'basic'], 'keywords': ['チェック', '選択', 'オンオフ', 'ブール']
Default_checkbox ==
    [id |-> <<"c", "h", "e", "c", "k", "b", "o", "x">>,
     name |-> <<"s", "t", ".", "c", "h", "e", "c", "k", "b", "o", "x">>,
     category |-> <<"s", "e", "l", "e", "c", "t", "_", "w", "i", "d", "g", "e", "t", "s">>,
     description |-> <<"U30C1", "U30A7", "U30C3", "U30AF", "U30DC", "U30C3", "U30AF", "U30B9">>,
     tags |-> <<<<"s", "e", "l", "e", "c", "t">>, <<"b", "o", "o", "l", "e", "a", "n">>, <<"t", "o", "g", "g", "l", "e">>, <<"b", "a", "s", "i", "c">>>>,
     keywords |-> <<<<"U30C1", "U30A7", "U30C3", "U30AF">>, <<"U9078", "U629E">>, <<"U30AA", "U30F3", "U30AA", "U30D5">>, <<"U30D6", "U30FC", "U30EB">>>>]

\* 'id': 'radio', 'name': 'st.radio', 'category': 'select_widgets', 'description': 'ラジオボタン', 'tags': ['select', 'choice', 'single', 'basic'], 'keywords': ['ラジオ', '選択', '単一選択', 'オプション']
Default_radio ==
    [id |-> <<"r", "a", "d", "i", "o">>,
     name |-> <<"s", "t", ".", "r", "a", "d", "i", "o">>,
     category |-> <<"s", "e", "l", "e", "c", "t", "_", "w", "i", "d", "g", "e", "t", "s">>,
     description |-> <<"U30E9", "U30B8", "U30AA", "U30DC", "U30BF", "U30F3">>,
     tags |-> <<<<"s", "e", "l", "e", "c", "t">>, <<"c", "h", "o", "i", "c", "e">>, <<"s", "i", "n", "g", "l", "e">>, <<"b", "a", "s", "i", "c">>>>,
     keywords |-> <<<<"U30E9", "U30B8", "U30AA">>, <<"U9078", "U629E">>, <<"U5358", "U4E00", "U9078", "U629E">>, <<"U30AA", "U30D7", "U30B7", "U30E7", "U30F3">>>>]

\* 'id': 'selectbox', 'name': 'st.selectbox', 'category': 'select_widgets', 'description': 'ドロップダウン選択ボックス', 'tags': ['select', 'dropdown', 'choice', 'basic'], 'keywords': ['セレクト', 'ドロップダウン', '選択', 'リスト']
Default_selectbox ==
    [id |-> <<"s", "e", "l", "e", "c", "t", "b", "o", "x">>,
     name |-> <<"s", "t", ".", "s", "e", "l", "e", "c", "t", "b", "o", "x">>,
     category |-> <<"s", "e", "l", "e", "c", "t", "_", "w", "i", "d", "g", "e", "t", "s">>,
     description |-> <<"U30C9", "U30ED", "U30C3", "U30D7", "U30C0", "U30A6", "U30F3", "U9078", "U629E", "U30DC", "U30C3", "U30AF", "U30B9">>,
     tags |-> <<<<"s", "e", "l", "e", "c", "t">>, <<"d", "r", "o", "p", "d", "o", "w", "n">>, <<"c", "h", "o", "i", "c", "e">>, <<"b", "a", "s", "i", "c">>>>,
     keywords |-> <<<<"U30BB", "U30EC", "U30AF", "U30C8">>, <<"U30C9", "U30ED", "U30C3", "U30D7", "U30C0", "U30A6", "U30F3">>, <<"U9078", "U629E">>, <<"U30EA", "U30B9", "U30C8">>>>]

\* 'id': 'multiselect', 'name': 'st.multiselect', 'category': 'select_widgets', 'description': '複数選択ボックス', 'tags': ['select', 'multiple', 'choice', 'list'], 'keywords': ['複数選択', 'マルチ', '選択', '複数']
Default_multiselect ==
    [id |-> <<"m", "u", "l", "t", "i", "s", "e", "l", "e", "c", "t">>,
     name |-> <<"s", "t", ".", "m", "u", "l", "t", "i", "s", "e", "l", "e", "c", "t">>,
     category |-> <<"s", "e", "l", "e", "c", "t", "_", "w", "i", "d", "g", "e", "t", "s">>,
     description |-> <<"U8907", "U6570", "U9078", "U629E", "U30DC", "U30C3", "U30AF", "U30B9">>,
     tags |-> <<<<"s", "e", "l", "e", "c", "t">>, <<"m", "u", "l", "t", "i", "p", "l", "e">>, <<"c", "h", "o", "i", "c", "e">>, <<"l", "i", "s", "t">>>>,
     keywords |-> <<<<"U8907", "U6570", "U9078", "U629E">>, <<"U30DE", "U30EB", "U30C1">>, <<"U9078", "U629E">>, <<"U8907", "U6570">>>>]

\* 'id': 'slider', 'name': 'st.slider', 'category': 'select_widgets', 'description': 'スライダー', 'tags': ['select', 'range', 'slider', 'basic'], 'keywords': ['スライダー', '範囲', '調整', 'スライド']
Default_slider ==
    [id |-> <<"s", "l", "i", "d", "e", "r">>,
     name |-> <<"s", "t", ".", "s", "l", "i", "d", "e", "r">>,
     category |-> <<"s", "e", "l", "e", "c", "t", "_", "w", "i", "d", "g", "e", "t", "s">>,
     description |-> <<"U30B9", "U30E9", "U30A4", "U30C0", "U30FC">>,
     tags |-> <<<<"s", "e", "l", "e", "c", "t">>, <<"r", "a", "n", "g", "e">>, <<"s", "l", "i", "d", "e", "r">>, <<"b", "a", "s", "i", "c">>>>,
     keywords |-> <<<<"U30B9", "U30E9", "U30A4", "U30C0", "U30FC">>, <<"U7BC4", "U56F2">>, <<"U8ABF", "U6574">>, <<"U30B9", "U30E9", "U30A4", "U30C9">>>>]

\* 'id': 'button', 'name': 'st.button', 'category': 'input_widgets', 'description': 'ボタン', 'tags': ['action', 'button', 'click', 'basic'], 'keywords': ['ボタン', 'クリック', 'アクション', '実行']
Default_button ==
    [id |-> <<"b", "u", "t", "t", "o", "n">>,
     name |-> <<"s", "t", ".", "b", "u", "t", "t", "o", "n">>,
     category |-> <<"i", "n", "p", "u", "t", "_", "w", "i", "d", "g", "e", "t", "s">>,
     description |-> <<"U30DC", "U30BF", "U30F3">>,
     tags |-> <<<<"a", "c", "t", "i", "o", "n">>, <<"b", "u", "t", "t", "o", "n">>, <<"c", "l", "i", "c", "k">>, <<"b", "a", "s", "i", "c">>>>,
     keywords |-> <<<<"U30DC", "U30BF", "U30F3">>, <<"U30AF", "U30EA", "U30C3", "U30AF">>, <<"U30A2", "U30AF", "U30B7", "U30E7", "U30F3">>, <<"U5B9F", "U884C">>>>]

\* 'id': 'dataframe', 'name': 'st.dataframe', 'category': 'data_widgets', 'description': 'インタラクティブなデータフレーム表示', 'tags': ['data', 'table', 'dataframe', 'basic'], 'keywords': ['データフレーム', 'テーブル', '表', 'データ']
Default_dataframe ==
    [id |-> <<"d", "a", "t", "a", "f", "r", "a", "m", "e">>,
     name |-> <<"s", "t", ".", "d", "a", "t", "a", "f", "r", "a", "m", "e">>,
     category |-> <<"d", "a", "t", "a", "_", "w", "i", "d", "g", "e", "t", "s">>,
     description |-> <<"U30A4", "U30F3", "U30BF", "U30E9", "U30AF", "U30C6", "U30A3", "U30D6", "U306A", "U30C7", "U30FC", "U30BF", "U30D5", "U30EC", "U30FC", "U30E0", "U8868", "U793A">>,
     tags |-> <<<<"d", "a", "t", "a">>, <<"t", "a", "b", "l", "e">>, <<"d", "a", "t", "a", "f", "r", "a", "m", "e">>, <<"b", "a", "s", "i", "c">>>>,
     keywords |-> <<<<"U30C7", "U30FC", "U30BF", "U30D5", "U30EC", "U30FC", "U30E0">>, <<"U30C6", "U30FC", "U30D6", "U30EB">>, <<"U8868">>, <<"U30C7", "U30FC", "U30BF">>>>]

\* 'id': 'table', 'name': 'st.table', 'category': 'data_widgets', 'description': '静的なテーブル表示', 'tags': ['data', 'table', 'static'], 'keywords': ['テーブル', '表', '静的', '固定']
Default_table ==
    [id |-> <<"t", "a", "b", "l", "e">>,
     name |-> <<"s", "t", ".", "t", "a", "b", "l", "e">>,
     category |-> <<"d", "a", "t", "a", "_", "w", "i", "d", "g", "e", "t", "s">>,
     description |-> <<"U9759", "U7684", "U306A", "U30C6", "U30FC", "U30D6", "U30EB", "U8868", "U793A">>,
     tags |-> <<<<"d", "a", "t", "a">>, <<"t", "a", "b", "l", "e">>, <<"s", "t", "a", "t", "i", "c">>>>,
     keywords |-> <<<<"U30C6", "U30FC", "U30D6", "U30EB">>, <<"U8868">>, <<"U9759", "U7684">>, <<"U56FA", "U5B9A">>>>]

\* 'id': 'metric', 'name': 'st.metric', 'category': 'data_widgets', 'description': 'メトリクス表示', 'tags': ['data', 'metric', 'kpi', 'dashboard'], 'keywords': ['メトリクス', 'KPI', '指標', 'ダッシュボード']
Default_metric ==
    [id |-> <<"m", "e", "t", "r", "i", "c">>,
     name |-> <<"s", "t", ".", "m", "e", "t", "r", "i", "c">>,
     category |-> <<"d", "a", "t", "a", "_", "w", "i", "d", "g", "e", "t", "s">>,
     description |-> <<"U30E1", "U30C8", "U30EA", "U30AF", "U30B9", "U8868", "U793A">>,
     tags |-> <<<<"d", "a", "t", "a">>, <<"m", "e", "t", "r", "i", "c">>, <<"k", "p", "i">>, <<"d", "a", "s", "h", "b", "o", "a", "r", "d">>>>,
     keywords |-> <<<<"U30E1", "U30C8", "U30EA", "U30AF", "U30B9">>, <<"K", "P", "I">>, <<"U6307", "U6A19">>, <<"U30C0", "U30C3", "U30B7", "U30E5", "U30DC", "U30FC", "U30C9">>>>]

\* 'id': 'line_chart', 'name': 'st.line_chart', 'category': 'chart_widgets', 'description': '折れ線グラフ', 'tags': ['chart', 'line', 'graph', 'basic'], 'keywords': ['折れ線', 'グラフ', 'チャート', '推移']
Default_line_chart ==
    [id |-> <<"l", "i", "n", "e", "_", "c", "h", "a", "r", "t">>,
     name |-> <<"s", "t", ".", "l", "i", "n", "e", "_", "c", "h", "a", "r", "t">>,
     category |-> <<"c", "h", "a", "r", "t", "_", "w", "i", "d", "g", "e", "t", "s">>,
     description |-> <<"U6298", "U308C", "U7DDA", "U30B0", "U30E9", "U30D5">>,
     tags |-> <<<<"c", "h", "a", "r", "t">>, <<"l", "i", "n", "e">>, <<"g", "r", "a", "p", "h">>, <<"b", "a", "s", "i", "c">>>>,
     keywords |-> <<<<"U6298", "U308C", "U7DDA">>, <<"U30B0", "U30E9", "U30D5">>, <<"U30C1", "U30E3", "U30FC", "U30C8">>, <<"U63A8", "U79FB">>>>]

\* 'id': 'bar_chart', 'name': 'st.bar_chart', 'category': 'chart_widgets', 'description': '棒グラフ', 'tags': ['chart', 'bar', 'graph', 'basic'], 'keywords': ['棒グラフ', 'バー', 'チャート', '比較']
Default_bar_chart ==
    [id |-> <<"b", "a", "r", "_", "c", "h", "a", "r", "t">>,
     name |-> <<"s", "t", ".", "b", "a", "r", "_", "c", "h", "a", "r", "t">>,
     category |-> <<"c", "h", "a", "r", "t", "_", "w", "i", "d", "g", "e", "t", "s">>,
     description |-> <<"U68D2", "U30B0", "U30E9", "U30D5">>,
     tags |-> <<<<"c", "h", "a", "r", "t">>, <<"b", "a", "r">>, <<"g", "r", "a", "p", "h">>, <<"b", "a", "s", "i", "c">>>>,
     keywords |-> <<<<"U68D2", "U30B0", "U30E9", "U30D5">>, <<"U30D0", "U30FC">>, <<"U30C1", "U30E3", "U30FC", "U30C8">>, <<"U6BD4", "U8F03">>>>]

\* 'id': 'area_chart', 'name': 'st.area_chart', 'category': 'chart_widgets', 'description': 'エリアチャート', 'tags': ['chart', 'area', 'graph'], 'keywords': ['エリア', '面', 'チャート', '累積']
Default_area_chart ==
    [id |-> <<"a", "r", "e", "a", "_", "c", "h", "a", "r", "t">>,
     name |-> <<"s", "t", ".", "a", "r", "e", "a", "_", "c", "h", "a", "r", "t">>,
     category |-> <<"c", "h", "a", "r", "t", "_", "w", "i", "d", "g", "e", "t", "s">>,
     description |-> <<"U30A8", "U30EA", "U30A2", "U30C1", "U30E3", "U30FC", "U30C8">>,
     tags |-> <<<<"c", "h", "a", "r", "t">>, <<"a", "r", "e", "a">>, <<"g", "r", "a", "p", "h">>>>,
     keywords |-> <<<<"U30A8", "U30EA", "U30A2">>, <<"U9762">>, <<"U30C1", "U30E3", "U30FC", "U30C8">>, <<"U7D2F", "U7A4D">>>>]

\* 'id': 'columns', 'name': 'st.columns', 'category': 'layout_widgets', 'description': 'カラムレイアウト', 'tags': ['layout', 'columns', 'grid', 'basic'], 'keywords': ['カラム', '列', 'レイアウト', '配置']
Default_columns ==
    [id |-> <<"c", "o", "l", "u", "m", "n", "s">>,
     name |-> <<"s", "t", ".", "c", "o", "l", "u", "m", "n", "s">>,
     category |-> <<"l", "a", "y", "o", "u", "t", "_", "w", "i", "d", "g", "e", "t", "s">>,
     description |-> <<"U30AB", "U30E9", "U30E0", "U30EC", "U30A4", "U30A2", "U30A6", "U30C8">>,
     tags |-> <<<<"l", "a", "y", "o", "u", "t">>, <<"c", "o", "l", "u", "m", "n", "s">>, <<"g", "r", "i", "d">>, <<"b", "a", "s", "i", "c">>>>,
     keywords |-> <<<<"U30AB", "U30E9", "U30E0">>, <<"U5217">>, <<"U30EC", "U30A4", "U30A2", "U30A6", "U30C8">>, <<"U914D", "U7F6E">>>>]

\* 'id': 'container', 'name': 'st.container', 'category': 'layout_widgets', 'description': 'コンテナ', 'tags': ['layout', 'container', 'group'], 'keywords': ['コンテナ', 'グループ', 'まとめ', '整理']
Default_container ==
    [id |-> <<"c", "o", "n", "t", "a", "i", "n", "e", "r">>,
     name |-> <<"s", "t", ".", "c", "o", "n", "t", "a", "i", "n", "e", "r">>,
     category |-> <<"l", "a", "y", "o", "u", "t", "_", "w", "i", "d", "g", "e", "t", "s">>,
     description |-> <<"U30B3", "U30F3", "U30C6", "U30CA">>,
     tags |-> <<<<"l", "a", "y", "o", "u", "t">>, <<"c", "o", "n", "t", "a", "i", "n", "e", "r">>, <<"g", "r", "o", "u", "p">>>>,
     keywords |-> <<<<"U30B3", "U30F3", "U30C6", "U30CA">>, <<"U30B0", "U30EB", "U30FC", "U30D7">>, <<"U307E", "U3068", "U3081">>, <<"U6574", "U7406">>>>]

\* 'id': 'expander', 'name': 'st.expander', 'category': 'layout_widgets', 'description': '展開可能セクション', 'tags': ['layout', 'expander', 'collapsible'], 'keywords': ['展開', '折りたたみ', 'エクスパンダー', '詳細']
Default_expander ==
    [id |-> <<"e", "x", "p", "a", "n", "d", "e", "r">>,
     name |-> <<"s", "t", ".", "e", "x", "p", "a", "n", "d", "e", "r">>,
     category |-> <<"l", "a", "y", "o", "u", "t", "_", "w", "i", "d", "g", "e", "t", "s">>,
     description |-> <<"U5C55", "U958B", "U53EF", "U80FD", "U30BB", "U30AF", "U30B7", "U30E7", "U30F3">>,
     tags |-> <<<<"l", "a", "y", "o", "u", "t">>, <<"e", "x", "p", "a", "n", "d", "e", "r">>, <<"c", "o", "l", "l", "a", "p", "s", "i", "b", "l", "e">>>>,
     keywords |-> <<<<"U5C55", "U958B">>, <<"U6298", "U308A", "U305F", "U305F", "U307F">>, <<"U30A8", "U30AF", "U30B9", "U30D1", "U30F3", "U30C0", "U30FC">>, <<"U8A73", "U7D30">>>>]

\* 'id': 'tabs', 'name': 'st.tabs', 'category': 'layout_widgets', 'description': 'タブレイアウト', 'tags': ['layout', 'tabs', 'navigation'], 'keywords': ['タブ', '切り替え', 'ナビゲーション', '整理']
Default_tabs ==
    [id |-> <<"t", "a", "b", "s">>,
     name |-> <<"s", "t", ".", "t", "a", "b", "s">>,
     category |-> <<"l", "a", "y", "o", "u", "t", "_", "w", "i", "d", "g", "e", "t", "s">>,
     description |-> <<"U30BF", "U30D6", "U30EC", "U30A4", "U30A2", "U30A6", "U30C8">>,
     tags |-> <<<<"l", "a", "y", "o", "u", "t">>, <<"t", "a", "b", "s">>, <<"n", "a", "v", "i", "g", "a", "t", "i", "o", "n">>>>,
     keywords |-> <<<<"U30BF", "U30D6">>, <<"U5207", "U308A", "U66FF", "U3048">>, <<"U30CA", "U30D3", "U30B2", "U30FC", "U30B7", "U30E7", "U30F3">>, <<"U6574", "U7406">>>>]

\* SearchEngine._create_default_components
DefaultComponents ==
    <<Default_text_input, Default_number_input, Default_text_area, Default_date_input,
      Default_checkbox, Default_radio, Default_selectbox, Default_multiselect, Default_slider,
      Default_button, Default_dataframe, Default_table, Default_metric, Default_line_chart,
      Default_bar_chart, Default_area_chart, Default_columns, Default_container, Default_expander,
      Default_tabs>>

\* the constructor's argument when no records are supplied: None or []
NoComponentsData == {None, Some(<<>>)}

\* what _load_components_data finds at data/components_meta.json when it
\* looks: no file, a file that cannot be opened or read, a file that is not
\* JSON, a JSON document that is not an object, or a JSON object (without a
\* "components" entry, with [], with a list of records)
MetaFiles ==
    {[state |-> "absent"], [state |-> "unreadable"], [state |-> "malformed"],
     [state |-> "not_object"],
     [state |-> "object", components |-> None],
     [state |-> "object", components |-> Some(<<>>)],
     [state |-> "object", components |-> Some(<<RecChart>>)]}

\* the file was not looked at
NotRead == [state |-> "not_read"]

\* _load_components_data, self.components being []: the list it leaves in
\* self.components, or the exception that leaves it
LoadComponentsData(file) ==
    CASE file.state = "absent" ->
            [raised |-> FALSE, components |-> DefaultComponents]
      [] file.state = "unreadable" ->
            [raised |-> TRUE, error |-> "OSError", components |-> <<>>]
      [] file.state = "malformed" ->
            [raised |-> TRUE, error |-> "JSONDecodeError", components |-> <<>>]
      [] file.state = "not_object" ->
            [raised |-> TRUE, error |-> "AttributeError", components |-> <<>>]
      [] file.state = "object" ->
            LET loaded == IF file.components.given THEN file.components.val ELSE <<>>
            IN [raised |-> FALSE,
                components |-> IF loaded = <<>> THEN DefaultComponents ELSE loaded]

\* a builder that reads the id with comp.get('id') and never raises
BuildRaises_Never(comps) == FALSE

\* comp['id'] raises KeyError for a record of comps
BuildRaises(comps) == \E i \in 1..Len(comps) : "id" \notin DOMAIN comps[i]

\* the records the loop of _build_index has indexed when it ends or raises
Indexed(comps) ==
    LET stop == IF \E i \in 1..Len(comps) : "id" \notin DOMAIN comps[i]
                THEN CHOOSE i \in 1..Len(comps) :
                        /\ "id" \notin DOMAIN comps[i]
                        /\ \A j \in 1..(i - 1) : "id" \in DOMAIN comps[j]
                ELSE Len(comps) + 1
    IN SubSeq(comps, 1, stop - 1)

\* SearchEngine.__init__(data): self.components when it ends, and the
\* exception if it ends by one
Construct(data, file) ==
    LET loaded == IF Truthy(data) THEN [raised |-> FALSE, components |-> data.val]
                  ELSE LoadComponentsData(file)
    IN IF loaded.raised THEN loaded
       ELSE IF BuildRaises(loaded.components)
            THEN [raised |-> TRUE, error |-> "KeyError", components |-> loaded.components]
            ELSE loaded

\* ------------------------------------------------------------ state manager
\* utils/state_manager.py.  st.session_state is a dict: the function from the
\* keys it has to their values.  A value carries its Python type: None, a
\* str, a bool, an int, a list (a sequence), a dict (the sequence of its
\* [key, value] entries, in insertion order).  Keys, str values and the
\* elements of lists are strings.  A history entry is {key, value}; its
\* timestamp, the wall clock of the call, is left out.
NoneValue == [t |-> "none", v |-> 0]

Str(s) == [t |-> "str", v |-> s]

Bool(b) == [t |-> "bool", v |-> b]

Number(n) == [t |-> "int", v |-> n]

List(l) == [t |-> "list", v |-> l]

Dict(d) == [t |-> "dict", v |-> d]

\* an exception that leaves a call
Raised(error) == [t |-> "raised", v |-> error]

\* a session state without keys
EmptyState == [k \in {} |-> NoneValue]

\* st.session_state[key] = value
Put(state, key, value) == (key :> value) @@ state

\* what _initialize_state assigns when 'initialized' is not a key
InitialValues ==
    [k \in {"initialized", "current_category", "current_component", "search_query",
            "favorites", "theme", "show_code", "demo_params", "history", "view_count",
            "last_visited"} |->
        CASE k = "initialized" -> Bool(TRUE)
          [] k = "current_category" -> Str("input_widgets")
          [] k = "current_component" -> NoneValue
          [] k = "search_query" -> Str("")
          [] k = "favorites" -> List(<<>>)
          [] k = "theme" -> Str("light")
          [] k = "show_code" -> Bool(TRUE)
          [] k = "demo_params" -> Dict(<<>>)
          [] k = "history" -> List(<<>>)
          [] k = "view_count" -> Dict(<<>>)
          [] k = "last_visited" -> NoneValue]

\* StateManager._initialize_state
InitializeState(state) ==
    IF "initialized" \in DOMAIN state THEN state
    ELSE [k \in DOMAIN state \cup DOMAIN InitialValues |->
            IF k \in DOMAIN InitialValues THEN InitialValues[k] ELSE state[k]]

\* the history keeps its last HistoryCap entries
HistoryCap == 100

\* mutant of AddToHistory: the history keeps its first HistoryCap entries
\* (history[:100])
AddToHistory_KeepsOldest(state, key, value) ==
    LET s1 == IF "history" \in DOMAIN state THEN state ELSE Put(state, "history", List(<<>>))
    IN IF s1["history"].t # "list"
       THEN [raised |-> TRUE, error |-> "AttributeError", state |-> s1]
       ELSE LET appended == Append(s1["history"].v, [key |-> key, value |-> value])
                first == IF Len(appended) > HistoryCap THEN SubSeq(appended, 1, HistoryCap)
                         ELSE appended
            IN [raised |-> FALSE, state |-> Put(s1, "history", List(first))]

\* StateManager._add_to_history: the state it leaves, and whether it raised
\* (history.append on a value that is not a list)
AddToHistory(state, key, value) ==
    LET s1 == IF "history" \in DOMAIN state THEN state ELSE Put(state, "history", List(<<>>))
    IN IF s1["history"].t # "list"
       THEN [raised |-> TRUE, error |-> "AttributeError", state |-> s1]
       ELSE LET appended == Append(s1["history"].v, [key |-> key, value |-> value])
                n == Len(appended)
                last == IF n > HistoryCap THEN SubSeq(appended, n - HistoryCap + 1, n)
                        ELSE appended
            IN [raised |-> FALSE, state |-> Put(s1, "history", List(last))]

\* StateManager.set
SetOn(state, key, value) == AddToHistory(Put(state, key, value), key, value)

\* a get that takes a value that is false (None, "", [], {}, False, 0) for a
\* missing one: st.session_state.get(key) or default
GetOn_FalsyIsDefault(state, key) ==
    IF key \in DOMAIN state /\ state[key] \notin {NoneValue, Str(""), List(<<>>), Dict(<<>>),
                                                  Bool(FALSE), Number(0)}
    THEN state[key]
    ELSE NoneValue

\* StateManager.get(key): st.session_state.get(key, None)
GetOn(state, key) == IF key \in DOMAIN state THEN state[key] ELSE NoneValue

\* list.remove(x): the list without the first x
RemoveFirst(l, x) ==
    LET at == CHOOSE i \in 1..Len(l) : l[i] = x /\ \A j \in 1..(i - 1) : l[j] # x
    IN SubSeq(l, 1, at - 1) \o SubSeq(l, at + 1, Len(l))

\* mutant of ToggleFavoriteOn: the id is appended and True returned whether
\* or not it is in the list
ToggleFavoriteOn_Appends(state, component_id) ==
    LET s1 == IF "favorites" \in DOMAIN state THEN state
              ELSE Put(state, "favorites", List(<<>>))
        favorites == s1["favorites"]
    IN IF favorites.t # "list"
       THEN [state |-> s1,
             ret |-> Raised(IF favorites.t \in {"str", "dict"} THEN "AttributeError"
                            ELSE "TypeError")]
       ELSE [state |-> Put(s1, "favorites", List(Append(favorites.v, component_id))),
             ret |-> Bool(TRUE)]

\* StateManager.is_favorite, the value of favorites being a list when there is one
IsFavoriteOn(state, component_id) ==
    IF "favorites" \notin DOMAIN state THEN Bool(FALSE)
    ELSE Bool(InSeq(component_id, state["favorites"].v))

\* StateManager.toggle_favorite: the state it leaves and what it returns
ToggleFavoriteOn(state, component_id) ==
    LET s1 == IF "favorites" \in DOMAIN state THEN state
              ELSE Put(state, "favorites", List(<<>>))
        favorites == s1["favorites"]
    IN IF favorites.t # "list"
       THEN [state |-> s1,
             ret |-> Raised(IF favorites.t \in {"str", "dict"} THEN "AttributeError"
                            ELSE "TypeError")]
       ELSE IF InSeq(component_id, favorites.v)
            THEN [state |-> Put(s1, "favorites", List(RemoveFirst(favorites.v, component_id))),
                  ret |-> Bool(FALSE)]
            ELSE [state |-> Put(s1, "favorites", List(Append(favorites.v, component_id))),
                  ret |-> Bool(TRUE)]

\* d[key] = value on the entries of a dict
DictPut(d, key, value) ==
    IF \E i \in 1..Len(d) : d[i].key = key
    THEN [i \in 1..Len(d) |-> IF d[i].key = key THEN [key |-> key, value |-> value] ELSE d[i]]
    ELSE Append(d, [key |-> key, value |-> value])

\* d.get(key, default) on the entries of a dict
DictGet(d, key, default) ==
    IF \E i \in 1..Len(d) : d[i].key = key
    THEN d[CHOOSE i \in 1..Len(d) : d[i].key = key].value
    ELSE default

\* StateManager.update_demo_params
UpdateDemoParamsOn(state, component_id, params) ==
    LET s1 == IF "demo_params" \in DOMAIN state THEN state
              ELSE Put(state, "demo_params", Dict(<<>>))
    IN IF s1["demo_params"].t # "dict"
       THEN [state |-> s1, ret |-> Raised("TypeError")]
       ELSE [state |-> Put(s1, "demo_params",
                           Dict(DictPut(s1["demo_params"].v, component_id, params))),
             ret |-> NoneValue]

\* StateManager.increment_view_count
IncrementViewCountOn(state, component_id) ==
    LET s1 == IF "view_count" \in DOMAIN state THEN state
              ELSE Put(state, "view_count", Dict(<<>>))
    IN IF s1["view_count"].t # "dict"
       THEN [state |-> s1, ret |-> Raised("AttributeError")]
       ELSE LET current_count == DictGet(s1["view_count"].v, component_id, 0)
            IN [state |-> Put(s1, "view_count",
                              Dict(DictPut(s1["view_count"].v, component_id, current_count + 1))),
                ret |-> Number(current_count + 1)]

\* the loop of import_state over state_dict.items(): the state it leaves,
\* FALSE when a set raised (except Exception: return False), and the sets it
\* called, in order
RECURSIVE ImportItems(_, _, _)
ImportItems(state, items, sets) ==
    IF items = <<>> THEN [state |-> state, ret |-> Bool(TRUE), sets |-> sets]
    ELSE IF Head(items).key = "timestamp" THEN ImportItems(state, Tail(items), sets)
    ELSE LET done == SetOn(state, Head(items).key, Head(items).value)
             sets1 == Append(sets, [key |-> Head(items).key, value |-> Head(items).value])
         IN IF done.raised THEN [state |-> done.state, ret |-> Bool(FALSE), sets |-> sets1]
            ELSE ImportItems(done.state, Tail(items), sets1)

\* StateManager.import_state on what json.loads makes of json_str: an
\* exception (not JSON), a value without items() (a JSON array), or the
\* entries of a JSON object
ImportStateOn(state, document) ==
    IF document.kind = "object" THEN ImportItems(state, document.items, <<>>)
    ELSE [state |-> state, ret |-> Bool(FALSE), sets |-> <<>>]

\* StateManager.reset_state
ResetStateOn(state) == InitializeState(EmptyState)

\* the calls set(key, value) of the model
SetInputs ==
    {[key |-> "theme", value |-> Str("dark")],
     [key |-> "favorites", value |-> List(<<>>)],
     [key |-> "favorites", value |-> List(<<"a">>)],
     [key |-> "test_key", value |-> Str("test_value")],
     [key |-> "history", value |-> List(<<>>)]}

\* the keys read with get: the keys that are set, and a key that never is
GetKeys == { i.key : i \in SetInputs } \cup {"zz"}

FavoriteIds == {"a", "b"}

\* json.loads of the json_str handed to import_state: not JSON; a JSON array;
\* {"theme": "dark", "timestamp": "t", "favorites": ["b"]};
\* {"theme": "dark", "history": "x", "favorites": ["b"]}
Documents ==
    {[kind |-> "invalid"],
     [kind |-> "array"],
     [kind |-> "object",
      items |-> <<[key |-> "theme", value |-> Str("dark")],
                  [key |-> "timestamp", value |-> Str("t")],
                  [key |-> "favorites", value |-> List(<<"b">>)]>>],
     [kind |-> "object",
      items |-> <<[key |-> "theme", value |-> Str("dark")],
                  [key |-> "history", value |-> Str("x")],
                  [key |-> "favorites", value |-> List(<<"b">>)]>>]}

\* ------------------------------------------------------------ state machine
\* the session state after the caller's first n calls, each of them
\* state_manager.set("theme", "dark")
\* (n calls are the first n \div 2 calls and then the others; the test of
\* half, which every session state passes, has it evaluated before the
\* others start from it)
RECURSIVE SetTimes(_, _)
SetTimes(state, n) ==
    IF n = 0 THEN state
    ELSE IF n = 1 THEN SetOn(state, "theme", Str("dark")).state
    ELSE LET half == SetTimes(state, n \div 2)
         IN IF "history" \in DOMAIN half THEN SetTimes(half, n - (n \div 2)) ELSE half

AfterSets(n) == SetTimes(InitializeState(EmptyState), n)

\* StateManager.__init__() and the n calls
StartSession(n) ==
    /\ session_state = AfterSets(n)
    /\ last_set = [k \in GetKeys |->
                    IF k = "theme" /\ n > 0
                    THEN Some([value |-> Str("dark"), touched |-> FALSE])
                    ELSE None]
    /\ n_calls = 0
    /\ recorded = [i \in 1..n |-> [key |-> "theme", value |-> Str("dark")]]

\* SearchEngine.__init__(data) in a process whose hash order is hashseed,
\* file being what the constructor finds if it looks: the engine ready for
\* its first call, or, pc being "raised", what the constructor had built when
\* the exception left it
StartEngine(data, file) ==
    /\ components_data = data
    /\ meta_file = file
    /\ hashseed \in Seeds
    /\ LET made == Construct(data, file)
       IN /\ components = made.components
          /\ index = BuildIdIndex(Indexed(made.components))
          /\ inverted_index = BuildInverted(Indexed(made.components), hashseed)
          /\ tag_index = BuildTagIndex(Indexed(made.components))
          /\ pc = IF made.raised THEN "raised" ELSE "idle"
          /\ op = IF made.raised THEN "__init__" ELSE "none"
          /\ ret = IF made.raised THEN [error |-> made.error] ELSE <<>>
    /\ args = <<>>
    /\ earlier = None

\* the engine and the state manager of a process, before the first call
Start(data, file) == StartEngine(data, file) /\ StartSession(0)

\* an engine constructed from a supplied catalog
Init == \E catalog \in Catalogs : Start(Some(catalog), NotRead)

\* an engine constructed without records: the catalog comes from the
\* metadata file or is the default catalog
InitLoad == \E data \in NoComponentsData, file \in MetaFiles : Start(data, file)

\* search keeping the fields list of the index as matched_fields[comp_id]
\* (no copy into a set()) and extending it: the postings of the query's
\* tokens grow with every call
Search_AliasesFields(query, mode, limit, category_filter, tag_filter) ==
    LET tokens == Range(QueryTokens(query, hashseed))
        Grown(posts) == [c \in 1..Len(posts) |->
                            [comp_id |-> posts[c].comp_id,
                             fields |-> posts[c].fields \o posts[c].fields]]
    IN /\ pc = "idle"
       /\ pc' = "done"
       /\ op' = "search"
       /\ args' = [query |-> query, mode |-> mode, limit |-> limit,
                   category_filter |-> category_filter, tag_filter |-> tag_filter]
       /\ ret' = SearchOn(index, inverted_index, hashseed, query, mode, limit,
                          category_filter, tag_filter)
       /\ inverted_index' =
            [i \in 1..Len(inverted_index) |->
                IF inverted_index[i].token \in tokens
                THEN [token |-> inverted_index[i].token, posts |-> Grown(inverted_index[i].posts)]
                ELSE inverted_index[i]]
       /\ UNCHANGED <<components, index, tag_index, hashseed, components_data, meta_file, caller, session>>

\* search(query, mode, limit, category_filter, tag_filter)
Search(query, mode, limit, category_filter, tag_filter) ==
    /\ pc = "idle"
    /\ pc' = "done"
    /\ op' = "search"
    /\ args' = [query |-> query, mode |-> mode, limit |-> limit,
                category_filter |-> category_filter, tag_filter |-> tag_filter]
    /\ ret' = SearchOn(index, inverted_index, hashseed, query, mode, limit,
                       category_filter, tag_filter)
    /\ UNCHANGED <<engine, caller, session>>

\* search_by_tag(tags)
SearchByTag(tags) ==
    /\ pc = "idle"
    /\ pc' = "done"
    /\ op' = "search_by_tag"
    /\ args' = [tags |-> tags]
    /\ ret' = SearchByTagOn(tag_index, hashseed, tags)
    /\ UNCHANGED <<engine, caller, session>>

\* get_suggestions(prefix, limit)
GetSuggestions(prefix, limit) ==
    /\ pc = "idle"
    /\ pc' = "done"
    /\ op' = "get_suggestions"
    /\ args' = [prefix |-> prefix, limit |-> limit]
    /\ ret' = GetSuggestionsOn(components, prefix, limit)
    /\ UNCHANGED <<engine, caller, session>>

\* get_related_components collecting into the record's own related list
\* (related = component['related']) in place of a new list
GetRelatedComponents_Aliasing(component_id, limit) ==
    LET result == GetRelatedOn(components, index, component_id, limit)
        aliased == component_id \in DOMAIN index /\ "related" \in DOMAIN index[component_id]
    IN /\ pc = "idle"
       /\ pc' = "done"
       /\ op' = "get_related_components"
       /\ args' = [component_id |-> component_id, limit |-> limit]
       /\ ret' = result
       /\ index' = IF aliased THEN [index EXCEPT ![component_id].related = result] ELSE index
       /\ components' = IF aliased
                        THEN [i \in 1..Len(components) |->
                                IF components[i] = index[component_id]
                                THEN [components[i] EXCEPT !.related = result]
                                ELSE components[i]]
                        ELSE components
       /\ UNCHANGED <<inverted_index, tag_index, hashseed, components_data, meta_file, caller, session>>

\* get_related_components(component_id, limit)
GetRelatedComponents(component_id, limit) ==
    /\ pc = "idle"
    /\ pc' = "done"
    /\ op' = "get_related_components"
    /\ args' = [component_id |-> component_id, limit |-> limit]
    /\ ret' = GetRelatedOn(components, index, component_id, limit)
    /\ UNCHANGED <<engine, caller, session>>

\* the caller takes the returned list; the engine is ready for the next call
Return ==
    /\ pc = "done"
    /\ pc' = "idle"
    /\ op' = "none"
    /\ args' = <<>>
    /\ ret' = <<>>
    /\ UNCHANGED <<engine, caller, session>>

DoSearch ==
    \E query \in Queries, mode \in Modes, limit \in Limits,
       category_filter \in CategoryFilters, tag_filter \in TagFilters :
        Search(query, mode, limit, category_filter, tag_filter)

DoSearchByTag == \E tags \in TagLists : SearchByTag(tags)

DoGetSuggestions == \E prefix \in Prefixes, limit \in Limits : GetSuggestions(prefix, limit)

DoGetRelatedComponents ==
    \E component_id \in ComponentIds, limit \in Limits :
        GetRelatedComponents(component_id, limit)

Next ==
    \/ DoSearch
    \/ DoSearchByTag
    \/ DoGetSuggestions
    \/ DoGetRelatedComponents
    \/ Return

Spec == Init /\ [][Next]_vars

\* the same calls on an engine constructed without records
SpecLoad == InitLoad /\ [][Next]_vars

\* ------------------------------------------------------- repeated searches
\* the component_ids of a result list, each with its score
ScoreSet(results) ==
    { [component_id |-> results[i].component_id, score |-> results[i].score] :
        i \in 1..Len(results) }

\* the caller takes the list a search returned and keeps the call and the
\* scores to compare a later call with
Remember ==
    /\ pc = "done"
    /\ op = "search"
    /\ earlier' = Some([args |-> args, scores |-> ScoreSet(ret), size |-> Len(ret)])
    /\ pc' = "idle"
    /\ op' = "none"
    /\ args' = <<>>
    /\ ret' = <<>>
    /\ UNCHANGED <<engine, session>>

\* "chart", "art bar"
RepeatedQueries == {<<"c", "h", "a", "r", "t">>, <<"a", "r", "t", " ", "b", "a", "r">>}

\* the searches that are repeated: both modes, limit 1 and 2, no filter
DoRepeatedSearch ==
    \E query \in RepeatedQueries, mode \in Modes, limit \in {1, 2} :
        Search(query, mode, limit, None, None)

\* the other calls that come between two searches
DoInterleavedSuggestions == GetSuggestions(<<"p">>, 1)

DoInterleavedRelated == GetRelatedComponents(<<"p", "i", "c">>, 2)

NextRepeated ==
    \/ DoRepeatedSearch
    \/ DoInterleavedSuggestions
    \/ DoInterleavedRelated
    \/ Return
    \/ Remember

\* sequences of calls on one engine in which the caller compares searches
SpecRepeated == Init /\ [][NextRepeated]_vars

\* ------------------------------------------------- searches for tag words
\* "input", "put", "basic art", "basic chart": queries with a token that is a
\* tag, or a part of a tag, of records of the pool
TagWordQueries ==
    {<<"i", "n", "p", "u", "t">>, <<"p", "u", "t">>,
     <<"b", "a", "s", "i", "c", " ", "a", "r", "t">>,
     <<"b", "a", "s", "i", "c", " ", "c", "h", "a", "r", "t">>}

DoTagWordSearch ==
    \E query \in TagWordQueries, mode \in Modes, limit \in {MaxLimit}, tag_filter \in TagFilters :
        Search(query, mode, limit, None, tag_filter)

NextTagWords ==
    \/ DoTagWordSearch
    \/ Return

\* free-text searches for words that are tags
SpecTagWords == Init /\ [][NextTagWords]_vars

\* ------------------------------------------------ searches that highlight
\* "art chart" (a token inside the other), "Art pic", "PIC 2" (upper case
\* in the query, tokens next to each other in "st.Pic2")
HighlightQueries ==
    {<<"a", "r", "t", " ", "c", "h", "a", "r", "t">>,
     <<"A", "r", "t", " ", "p", "i", "c">>,
     <<"P", "I", "C", " ", "2">>}

DoHighlightSearch ==
    \E query \in HighlightQueries, mode \in Modes, limit \in {MaxLimit} :
        Search(query, mode, limit, None, None)

NextHighlight ==
    \/ DoHighlightSearch
    \/ Return

\* searches whose tokens occur in the names and descriptions of the records
SpecHighlight == Init /\ [][NextHighlight]_vars

\* ------------------------------------------------------ the tokenizer alone
\* "a", "A", "_", " ", ".", the two ideographs, and the long vowel mark of
\* katakana, a word character outside the ranges of the second pattern
TokenChars == {"a", "A", "_", " ", ".", "NYUU", "RYOKU", "U30FC"}

\* every text of at most MaxText of these characters
TokenTexts == UNION { [1..n -> TokenChars] : n \in 0..MaxText }

\* engine._tokenize(text)
TokenizeText(text) ==
    /\ pc = "idle"
    /\ pc' = "done"
    /\ op' = "_tokenize"
    /\ args' = [text |-> text]
    /\ ret' = Tokenize(text, hashseed)
    /\ UNCHANGED <<engine, caller, session>>

DoTokenize == \E text \in TokenTexts : TokenizeText(text)

NextTokenize ==
    \/ DoTokenize
    \/ Return

\* an engine of one record
InitTokenize == Start(Some(<<RecMap>>), NotRead)

\* the tokenizer applied to texts on its own
SpecTokenize == InitTokenize /\ [][NextTokenize]_vars

\* ----------------------------------------------------- state manager calls
\* a call that works on the value of key in place
Touch(key) ==
    [k \in DOMAIN last_set |->
        IF k = key /\ last_set[k].given
        THEN Some([value |-> last_set[k].val.value, touched |-> TRUE])
        ELSE last_set[k]]

\* state_manager.set(key, value)
Set(key, value) ==
    LET done == SetOn(session_state, key, value)
    IN /\ pc = "idle"
       /\ n_calls < MaxCalls
       /\ pc' = "done"
       /\ op' = "set"
       /\ args' = [key |-> key, value |-> value]
       /\ ret' = IF done.raised THEN Raised(done.error) ELSE NoneValue
       /\ session_state' = done.state
       /\ last_set' = [last_set EXCEPT ![key] = Some([value |-> value, touched |-> FALSE])]
       /\ n_calls' = n_calls + 1
       /\ recorded' = Append(recorded, [key |-> key, value |-> value])
       /\ UNCHANGED <<engine, caller>>

\* state_manager.get(key)
Get(key) ==
    /\ pc = "idle"
    /\ pc' = "done"
    /\ op' = "get"
    /\ args' = [key |-> key]
    /\ ret' = GetOn(session_state, key)
    /\ UNCHANGED <<engine, caller, session>>

\* state_manager.toggle_favorite(component_id)
ToggleFavorite(component_id) ==
    LET done == ToggleFavoriteOn(session_state, component_id)
    IN /\ pc = "idle"
       /\ n_calls < MaxCalls
       /\ pc' = "done"
       /\ op' = "toggle_favorite"
       /\ args' = [component_id |-> component_id]
       /\ ret' = done.ret
       /\ session_state' = done.state
       /\ last_set' = Touch("favorites")
       /\ n_calls' = n_calls + 1
       /\ UNCHANGED recorded
       /\ UNCHANGED <<engine, caller>>

\* state_manager.update_demo_params(component_id, params)
UpdateDemoParams(component_id, params) ==
    LET done == UpdateDemoParamsOn(session_state, component_id, params)
    IN /\ pc = "idle"
       /\ n_calls < MaxCalls
       /\ pc' = "done"
       /\ op' = "update_demo_params"
       /\ args' = [component_id |-> component_id, params |-> params]
       /\ ret' = done.ret
       /\ session_state' = done.state
       /\ last_set' = Touch("demo_params")
       /\ n_calls' = n_calls + 1
       /\ UNCHANGED recorded
       /\ UNCHANGED <<engine, caller>>

\* state_manager.increment_view_count(component_id)
IncrementViewCount(component_id) ==
    LET done == IncrementViewCountOn(session_state, component_id)
    IN /\ pc = "idle"
       /\ n_calls < MaxCalls
       /\ pc' = "done"
       /\ op' = "increment_view_count"
       /\ args' = [component_id |-> component_id]
       /\ ret' = done.ret
       /\ session_state' = done.state
       /\ last_set' = Touch("view_count")
       /\ n_calls' = n_calls + 1
       /\ UNCHANGED recorded
       /\ UNCHANGED <<engine, caller>>

\* state_manager.clear_history()
ClearHistory ==
    /\ pc = "idle"
    /\ n_calls < MaxCalls
    /\ pc' = "done"
    /\ op' = "clear_history"
    /\ args' = <<>>
    /\ ret' = NoneValue
    /\ session_state' = Put(session_state, "history", List(<<>>))
    /\ last_set' = Touch("history")
    /\ n_calls' = n_calls + 1
    /\ recorded' = <<>>
    /\ UNCHANGED <<engine, caller>>

\* state_manager.import_state(json_str)
ImportState(document) ==
    LET done == ImportStateOn(session_state, document)
    IN /\ pc = "idle"
       /\ n_calls < MaxCalls
       /\ pc' = "done"
       /\ op' = "import_state"
       /\ args' = [document |-> document]
       /\ ret' = done.ret
       /\ session_state' = done.state
       /\ last_set' = [k \in DOMAIN last_set |-> None]
       /\ n_calls' = n_calls + 1
       /\ recorded' = recorded \o done.sets
       /\ UNCHANGED <<engine, caller>>

\* state_manager.reset_state()
ResetState ==
    /\ pc = "idle"
    /\ n_calls < MaxCalls
    /\ pc' = "done"
    /\ op' = "reset_state"
    /\ args' = <<>>
    /\ ret' = NoneValue
    /\ session_state' = ResetStateOn(session_state)
    /\ last_set' = [k \in DOMAIN last_set |-> None]
    /\ n_calls' = n_calls + 1
    /\ recorded' = <<>>
    /\ UNCHANGED <<engine, caller>>

DoSet == \E i \in SetInputs : Set(i.key, i.value)

DoGet == \E key \in GetKeys : Get(key)

DoToggleFavorite == \E component_id \in FavoriteIds : ToggleFavorite(component_id)

DoUpdateDemoParams == UpdateDemoParams("a", Dict(<<>>))

DoIncrementViewCount == IncrementViewCount("a")

DoImportState == \E document \in Documents : ImportState(document)

NextSession ==
    \/ DoSet
    \/ DoGet
    \/ DoToggleFavorite
    \/ DoUpdateDemoParams
    \/ DoIncrementViewCount
    \/ ClearHistory
    \/ DoImportState
    \/ ResetState
    \/ Return

\* the application's process: the global search_engine = SearchEngine(), no
\* metadata file being there, and the global state_manager = StateManager()
InitSession ==
    /\ hashseed = 0
    /\ Start(None, [state |-> "absent"])

\* sequences of state manager calls
SpecSession == InitSession /\ [][NextSession]_vars

\* ------------------------------------------------------------ favorites
\* state_manager.is_favorite(component_id), favorites being a list
IsFavorite(component_id) ==
    /\ pc = "idle"
    /\ "favorites" \in DOMAIN session_state => session_state["favorites"].t = "list"
    /\ pc' = "done"
    /\ op' = "is_favorite"
    /\ args' = [component_id |-> component_id]
    /\ ret' = IsFavoriteOn(session_state, component_id)
    /\ UNCHANGED <<engine, caller, session>>

\* the ids toggled and asked for: those of FavoriteIds and one more
ToggledIds == FavoriteIds \cup {"c"}

DoIsFavorite == \E component_id \in ToggledIds : IsFavorite(component_id)

DoToggle == \E component_id \in ToggledIds : ToggleFavorite(component_id)

NextFavorites ==
    \/ DoToggle
    \/ ResetState
    \/ DoIsFavorite
    \/ Return

\* sequences of toggle_favorite, is_favorite and reset_state calls
SpecFavorites == InitSession /\ [][NextFavorites]_vars

\* ------------------------------------------------------ a long history
\* the calls the caller has made before the run: none, or as many as leave
\* the history one entry short of its cap, or at its cap
HistoryStarts == {0, HistoryCap - 1, HistoryCap}

InitHistory ==
    /\ hashseed = 0
    /\ StartEngine(None, [state |-> "absent"])
    /\ \E n \in HistoryStarts : StartSession(n)

NextHistory ==
    \/ DoSet
    \/ DoImportState
    \/ Return

\* sequences of set and import_state calls, after the calls before the run
SpecHistory == InitHistory /\ [][NextHistory]_vars

\* ---------------------------------------------------------------- properties
SearchDone == pc = "done" /\ op = "search"

RelatedDone == pc = "done" /\ op = "get_related_components"

Ids(results) == { results[i].component_id : i \in 1..Len(results) }

ScoredIds(entries) == { entries[i].comp_id : i \in 1..Len(entries) }

\* every token the indexer records for a record: id, name, description, category, keywords
IndexedTokens(comp) ==
    UNION { TokenSet(comp[f]) : f \in Range(searchable_fields) \cap DOMAIN comp }
        \cup UNION { TokenSet(kw) : kw \in Range(GetList(comp, "keywords")) }

\* filtered_scores of the call in args, had it been made in the given mode
FilteredIn(mode) ==
    Filtered(index, inverted_index, hashseed, args.query, mode,
             args.category_filter, args.tag_filter)

\* C1: in EXACT mode every returned id is the id of a catalog record with an
\* indexed token equal to a query token, and when no query token is a key of
\* the inverted index the result is empty.
C1_ExactPrecision ==
    (SearchDone /\ args.mode = "EXACT") =>
        LET qtokens == TokenSet(Lower(args.query))
        IN /\ \A i \in 1..Len(ret) :
                \E k \in 1..Len(components) :
                    /\ components[k].id = ret[i].component_id
                    /\ IndexedTokens(components[k]) \cap qtokens # {}
           /\ (\A t \in qtokens : ~HasToken(inverted_index, t)) => ret = <<>>

\* an EXACT search that returns a record and leaves out a record that only
\* contains a query token as a substring of one of its tokens
C1_Witness ==
    /\ SearchDone /\ args.mode = "EXACT"
    /\ ret # <<>>
    /\ ScoredIds(FilteredIn("PARTIAL")) \ ScoredIds(FilteredIn("EXACT")) # {}

\* C2 as stated: with the same query, limit and filters, every id returned in
\* EXACT mode is returned in PARTIAL mode.
C2_ExactSubsetOfPartial_SameLimit ==
    (SearchDone /\ args.mode = "EXACT") =>
        Ids(ret) \subseteq
            Ids(SearchOn(index, inverted_index, hashseed, args.query, "PARTIAL",
                         args.limit, args.category_filter, args.tag_filter))

\* C2 amended: the same, when the limit does not truncate the PARTIAL result
\* (the limit is at least the number of records PARTIAL mode keeps after filtering).
C2_ExactSubsetOfPartial_Untruncated ==
    (SearchDone /\ args.mode = "EXACT" /\ args.limit >= Len(FilteredIn("PARTIAL"))) =>
        Ids(ret) \subseteq
            Ids(SearchOn(index, inverted_index, hashseed, args.query, "PARTIAL",
                         args.limit, args.category_filter, args.tag_filter))

\* an untruncated EXACT search returning a record, where PARTIAL returns more
C2_Witness ==
    /\ SearchDone /\ args.mode = "EXACT"
    /\ args.limit >= Len(FilteredIn("PARTIAL"))
    /\ ret # <<>>
    /\ Len(FilteredIn("PARTIAL")) > Len(ret)

\* C3: with limit k >= 0 search returns at most k results (none for k = 0).
C3_LimitRespected ==
    (SearchDone /\ args.limit >= 0) => Len(ret) <= args.limit

\* a search whose limit cut the list of surviving records
C3_Witness ==
    /\ SearchDone
    /\ args.limit >= 1
    /\ Len(ret) = args.limit
    /\ Len(FilteredIn(args.mode)) > args.limit

\* C4: with a negative limit search returns the empty list.
C4_NegativeLimitEmpty ==
    (SearchDone /\ args.limit < 0) => ret = <<>>

\* C5: when a category_filter c is passed (not None), every result has
\* category c.
C5_CategoryFilter ==
    (SearchDone /\ args.category_filter.given) =>
        \A i \in 1..Len(ret) : ret[i].category = args.category_filter.val

\* C6: with a non-empty tag_filter, every result's record has a tag of the
\* filter, and every scored record that has such a tag and passes the
\* category filter survives the filtering step.
C6_TagFilter ==
    (SearchDone /\ args.tag_filter.given /\ args.tag_filter.val # <<>>) =>
        LET wanted == Range(args.tag_filter.val)
            TagsOf(id) == Range(GetList(index[id], "tags"))
            scores == Scores(inverted_index, args.query, args.mode, hashseed)
            kept == ScoredIds(FilteredIn(args.mode))
        IN /\ \A i \in 1..Len(ret) : TagsOf(ret[i].component_id) \cap wanted # {}
           /\ Ids(ret) \subseteq kept
           /\ \A id \in ScoredIds(scores) :
                (/\ TagsOf(id) \cap wanted # {}
                 /\ (Truthy(args.category_filter)
                        => index[id].category = args.category_filter.val))
                    => id \in kept

\* a search with a two-tag filter that keeps a record having one of the two
\* tags and discards a scored record having neither
C6_Witness ==
    /\ SearchDone
    /\ args.tag_filter.given /\ Len(args.tag_filter.val) >= 2
    /\ ~args.category_filter.given
    /\ ret # <<>>
    /\ ScoredIds(Scores(inverted_index, args.query, args.mode, hashseed))
            \ ScoredIds(FilteredIn(args.mode)) # {}

\* C7: adjacent results are in non-increasing order of score.
C7_SortedByScore ==
    SearchDone => \A i \in 1..(Len(ret) - 1) : ret[i].score >= ret[i + 1].score

\* a search that returns two records of different scores, the second of
\* which was scored first
C7_Witness ==
    /\ SearchDone
    /\ Len(ret) >= 2
    /\ ret[1].score > ret[2].score
    /\ FilteredIn(args.mode)[1].comp_id = ret[2].component_id

\* C8: with limit k >= 0, a scored record that survived the filters and is
\* not returned implies that k results are returned, each of a score at least
\* that record's.
C8_TopK ==
    (SearchDone /\ args.limit >= 0) =>
        LET kept == FilteredIn(args.mode)
        IN \A j \in 1..Len(kept) :
            kept[j].comp_id \notin Ids(ret) =>
                /\ Len(ret) = args.limit
                /\ \A i \in 1..Len(ret) : kept[j].score <= ret[i].score

\* a search with limit 1 that leaves out a record of a strictly lower score
\* that was scored before the returned one
C8_Witness ==
    /\ SearchDone
    /\ args.limit = 1
    /\ Len(ret) = 1
    /\ LET kept == FilteredIn(args.mode)
       IN /\ Len(kept) >= 2
          /\ kept[1].comp_id # ret[1].component_id
          /\ kept[1].score < ret[1].score

\* C9: get_related_components(x, limit), x in the catalog, does not contain x.
C9_RelatedExcludesSelf ==
    (RelatedDone /\ args.component_id \in DOMAIN index) =>
        ~InSeq(args.component_id, ret)

\* C10: with limit >= 0 get_related_components returns at most limit ids.
C10_RelatedLimit ==
    (RelatedDone /\ args.limit >= 0) => Len(ret) <= args.limit

SuggestDone == pc = "done" /\ op = "get_suggestions"

Min(a, b) == IF a <= b THEN a ELSE b

\* the first n elements of s, all of s when it is shorter
Take(s, n) == SubSeq(s, 1, Min(n, Len(s)))

\* the ids get_related_components(component_id, ...) has to draw from, in
\* order: the related ids that are keys of the id map, as declared, then the
\* ids of the other records of the same category, as the catalog lists them
RelatedCandidates(component_id) ==
    LET component == index[component_id]
        declared == IF "related" \in DOMAIN component
                    THEN SelectSeq(component.related, LAMBDA r : r \in DOMAIN index)
                    ELSE <<>>
        others == SelectSeq(components,
                            LAMBDA c : c.id # component_id /\ c.category = component.category)
    IN declared \o [i \in 1..Len(others) |-> others[i].id]

SuggestionCandidates(prefix) ==
    LET p == Lower(prefix)
        hits == SelectSeq(components,
                          LAMBDA c : \/ StartsWith(Lower(c.name), StPrefix \o p)
                                     \/ IsSubstring(p, Lower(c.name)))
    IN [i \in 1..Len(hits) |-> hits[i].name]

\* C12: for a non-empty prefix and limit >= 0 get_suggestions returns the
\* names of the first min(limit, m) records, in catalog order, whose
\* lower-cased name starts with "st." + the lower-cased prefix or contains the
\* lower-cased prefix, m being the number of such records.
C12_Suggestions ==
    (SuggestDone /\ args.prefix # <<>> /\ args.limit >= 0) =>
        /\ ret = Take(SuggestionCandidates(args.prefix), args.limit)
        /\ Len(ret) <= args.limit

\* a call cut by limit: more names match than were asked for, and a returned
\* name matches only after lower-casing
C12_Witness ==
    /\ SuggestDone
    /\ args.prefix # <<>>
    /\ args.limit >= 1
    /\ Len(SuggestionCandidates(args.prefix)) > args.limit
    /\ Len(ret) = args.limit
    /\ \E i \in 1..Len(ret) : ~IsSubstring(Lower(args.prefix), ret[i])

\* the supplied category_filter is the category of no record of the catalog
CategoryMatchesNone ==
    /\ args.category_filter.given
    /\ \A i \in 1..Len(components) : components[i].category # args.category_filter.val

\* the supplied, non-empty tag_filter names no tag of any record of the catalog
TagsMatchNone ==
    /\ args.tag_filter.given
    /\ args.tag_filter.val # <<>>
    /\ \A i \in 1..Len(components) :
          Range(GetList(components[i], "tags")) \cap Range(args.tag_filter.val) = {}

\* C13: the soft failures return the empty list: search with an empty query
\* or with a category_filter or tag_filter that matches no record,
\* get_suggestions with an empty prefix, get_related_components with an id
\* that is not in the catalog.
C13_SoftFailuresEmpty ==
    /\ (SearchDone /\ (args.query = <<>> \/ CategoryMatchesNone \/ TagsMatchNone))
            => ret = <<>>
    /\ (SuggestDone /\ args.prefix = <<>>) => ret = <<>>
    /\ (RelatedDone /\ \A i \in 1..Len(components) : components[i].id # args.component_id)
            => ret = <<>>

\* C13 without the empty-string category filter, which search ignores (C5)
C13_SoftFailuresEmpty_TruthyCategory ==
    /\ (SearchDone /\ (\/ args.query = <<>>
                       \/ (CategoryMatchesNone /\ Truthy(args.category_filter))
                       \/ TagsMatchNone))
            => ret = <<>>
    /\ (SuggestDone /\ args.prefix = <<>>) => ret = <<>>
    /\ (RelatedDone /\ \A i \in 1..Len(components) : components[i].id # args.component_id)
            => ret = <<>>

\* the component_ids of a result list, in order
IdSeq(results) == [i \in 1..Len(results) |-> results[i].component_id]

\* the other iteration order of a token set
OtherSeed == CHOOSE s \in Seeds : s # hashseed

\* the same call on the same indexes when the token set of the query is
\* iterated in the other order
SearchInOtherOrder ==
    SearchOn(index, inverted_index, OtherSeed, args.query, args.mode,
             args.limit, args.category_filter, args.tag_filter)

\* C15: the returned sequence of component_ids, ties included, does not
\* depend on the order in which the token set of the query is iterated.
C15_TieOrderIndependent ==
    SearchDone => IdSeq(ret) = IdSeq(SearchInOtherOrder)

\* C16: no constructed engine holds a catalog in which two records share an
\* id: such a construction fails instead of letting the later record replace
\* the earlier one in the id map.
C16_DuplicateIdRejected ==
    pc \in {"idle", "done"} =>
        \A i, j \in 1..Len(components) :
            (i # j /\ "id" \in DOMAIN components[i] /\ "id" \in DOMAIN components[j])
                => components[i].id # components[j].id

\* C17: a catalog with a record without id makes the constructor raise: no
\* engine is produced from it.
C17_MissingIdRaises ==
    (\E i \in 1..Len(components) : "id" \notin DOMAIN components[i]) =>
        /\ pc = "raised"
        /\ ret = [error |-> "KeyError"]

\* a constructor that raised at a record without id after indexing a record
C17_Witness ==
    /\ pc = "raised"
    /\ op = "__init__"
    /\ Len(components) >= 2
    /\ "id" \in DOMAIN components[1]
    /\ "id" \notin DOMAIN components[2]
    /\ DOMAIN index = {components[1].id}

\* C18: constructed without records (None or []), the engine is produced
\* whatever the metadata file is, and its catalog is the default catalog
\* unless the file holds a non-empty components list, which is then the catalog.
C18_FileLoadNeverAborts ==
    ~Truthy(components_data) =>
        /\ pc # "raised"
        /\ components = IF meta_file.state = "object" /\ Truthy(meta_file.components)
                        THEN meta_file.components.val
                        ELSE DefaultComponents

\* C18 for the files that can be opened and hold a JSON object
C18_FileLoadNeverAborts_JsonObject ==
    (~Truthy(components_data) /\ meta_file.state \in {"absent", "object"}) =>
        /\ pc # "raised"
        /\ components = IF meta_file.state = "object" /\ Truthy(meta_file.components)
                        THEN meta_file.components.val
                        ELSE DefaultComponents

\* C19: no step of the engine's life after construction changes the catalog
\* list, the id map, the inverted index or the tag index.
C19_ReadOnly ==
    [][<<components, index, inverted_index, tag_index>>'
            = <<components, index, inverted_index, tag_index>>]_vars

\* a call of get_related_components has returned ids of which one is not in
\* the record's related list, and the record still has its list
C19_Witness ==
    /\ RelatedDone
    /\ args.component_id \in DOMAIN index
    /\ "related" \in DOMAIN index[args.component_id]
    /\ \E i \in 1..Len(ret) : ~InSeq(ret[i], index[args.component_id].related)
    /\ \E i \in 1..Len(components) : components[i] = index[args.component_id]
    /\ index = BuildIdIndex(components)

GetDone == pc = "done" /\ op = "get"

\* C20: after set(k, v), k not the history key, get(k) returns v until the
\* next set of k, import_state or reset_state.
C20_GetReturnsLastSet ==
    (GetDone /\ args.key # "history" /\ last_set[args.key].given) =>
        ret = last_set[args.key].val.value

\* C20, for the keys whose value no call has changed in place since the set:
\* toggle_favorite changes the list under favorites, update_demo_params the
\* dict under demo_params, increment_view_count the dict under view_count.
C20_GetReturnsLastSet_Untouched ==
    (GetDone /\ args.key # "history" /\ last_set[args.key].given
        /\ ~last_set[args.key].val.touched) =>
            ret = last_set[args.key].val.value

\* get(k) returns the value set for k two calls ago, another call having
\* changed the session state since
C20_Witness ==
    /\ GetDone
    /\ args.key # "history"
    /\ last_set[args.key].given
    /\ ~last_set[args.key].val.touched
    /\ ret = last_set[args.key].val.value
    /\ ret # InitialValues["favorites"]
    /\ n_calls = 2
    /\ Len(session_state["history"].v) = 1

\* the field names recorded for comp_id under token, as a set (none when the
\* token is no key or does not map to comp_id)
FieldNames(inv, token, comp_id) ==
    IF HasToken(inv, token)
    THEN UNION { Range(Posts(inv, token)[i].fields) :
                    i \in { j \in 1..Len(Posts(inv, token)) : Posts(inv, token)[j].comp_id = comp_id } }
    ELSE {}

\* the sum over tokens of weight x the number of distinct field names of comp_id
RECURSIVE DistinctFieldPoints(_, _, _, _)
DistinctFieldPoints(inv, tokens, comp_id, weight) ==
    IF tokens = <<>> THEN 0
    ELSE weight * Cardinality(FieldNames(inv, Head(tokens), comp_id))
            + DistinctFieldPoints(inv, Tail(tokens), comp_id, weight)

\* C21: in EXACT mode the score of every returned record is the sum, over the
\* query tokens that are keys of the inverted index and map to the record, of
\* 2 x the number of distinct field names recorded for the record under the
\* token (a token that two keywords of the record yield counts keywords once).
C21_ExactScoreDistinctFields ==
    (SearchDone /\ args.mode = "EXACT") =>
        \A i \in 1..Len(ret) :
            ret[i].score = DistinctFieldPoints(inverted_index, QueryTokens(args.query, hashseed),
                                               ret[i].component_id, 2)

\* q in t or t in q, for some token q of the query and some indexed token t of comp
PartiallyMatches(comp, query) ==
    \E t \in IndexedTokens(comp), q \in TokenSet(Lower(query)) :
        IsSubstring(q, t) \/ IsSubstring(t, q)

NoFilters == args.category_filter = None /\ args.tag_filter = None

\* C22: with no filters and a limit of at least the catalog size, search in
\* PARTIAL mode returns, once each, the ids of exactly the catalog records
\* that have an indexed token t with q in t or t in q for some query token q.
C22_PartialRecall ==
    (SearchDone /\ args.mode = "PARTIAL" /\ NoFilters /\ args.limit >= Len(components)) =>
        /\ Ids(ret) = { components[k].id :
                          k \in { j \in 1..Len(components) :
                                    PartiallyMatches(components[j], args.query) } }
        /\ Cardinality(Ids(ret)) = Len(ret)

\* a search for "art" that returns, among two records, the record "chart",
\* which has no token "art" (its token "chart" contains the query token)
C22_Witness ==
    /\ SearchDone /\ args.mode = "PARTIAL" /\ NoFilters
    /\ Len(components) = 2 /\ args.limit >= Len(components)
    /\ \E k \in 1..Len(components) :
        /\ components[k] = RecChart
        /\ args.query = <<"a", "r", "t">>
        /\ <<"a", "r", "t">> \notin IndexedTokens(RecChart)
        /\ RecChart.id \in Ids(ret)
    /\ Len(ret) = 2

\* f: len(fields) of comp_id under the key token (0 when token is no key or
\* does not map to comp_id)
FieldCount(inv, token, comp_id) ==
    IF HasToken(inv, token)
    THEN LET posts == Posts(inv, token)
             at == { j \in 1..Len(posts) : posts[j].comp_id = comp_id }
         IN IF at = {} THEN 0 ELSE Len(posts[CHOOSE j \in at : TRUE].fields)
    ELSE 0

\* the sum of f over the query tokens
RECURSIVE KeyPoints(_, _, _)
KeyPoints(inv, tokens, comp_id) ==
    IF tokens = <<>> THEN 0
    ELSE FieldCount(inv, Head(tokens), comp_id) + KeyPoints(inv, Tail(tokens), comp_id)

\* the sum of f over the keys other than token that contain it or that it contains
RECURSIVE OtherKeyPoints(_, _, _, _)
OtherKeyPoints(inv, n, token, comp_id) ==
    IF n = 0 THEN 0
    ELSE (IF /\ inv[n].token # token
             /\ (IsSubstring(token, inv[n].token) \/ IsSubstring(inv[n].token, token))
          THEN FieldCount(inv, inv[n].token, comp_id)
          ELSE 0) + OtherKeyPoints(inv, n - 1, token, comp_id)

\* the same, summed over the query tokens
RECURSIVE SubstringPoints(_, _, _)
SubstringPoints(inv, tokens, comp_id) ==
    IF tokens = <<>> THEN 0
    ELSE OtherKeyPoints(inv, Len(inv), Head(tokens), comp_id)
            + SubstringPoints(inv, Tail(tokens), comp_id)

\* C23: scores add up over the tokens and the two passes: a record returned in
\* EXACT mode scored 2 x f per query token that is a key; in PARTIAL mode
\* the same query scores it 2 x f + 1 x f for those tokens, plus 1 x f for
\* every other key in a substring relation with a query token, which is
\* strictly more than its EXACT score.
C23_ScoresAdditive ==
    (SearchDone /\ args.mode = "EXACT") =>
        LET tokens == QueryTokens(args.query, hashseed)
            partial == Scores(inverted_index, args.query, "PARTIAL", hashseed)
        IN \A i \in 1..Len(ret) :
            LET id == ret[i].component_id
                F == KeyPoints(inverted_index, tokens, id)
            IN /\ ret[i].score = 2 * F
               /\ F > 0
               /\ \E k \in 1..Len(partial) :
                    /\ partial[k].comp_id = id
                    /\ partial[k].score = 2 * F + 1 * F + SubstringPoints(inverted_index, tokens, id)
                    /\ partial[k].score > ret[i].score

\* an EXACT search for "Art pic", both tokens keys of the index, that returns
\* two records, one of them scored by both tokens
C23_Witness ==
    /\ SearchDone /\ args.mode = "EXACT"
    /\ args.query = <<"A", "r", "t", " ", "p", "i", "c">>
    /\ Len(ret) = 2
    /\ \E i \in 1..Len(ret) :
        /\ FieldCount(inverted_index, <<"a", "r", "t">>, ret[i].component_id) > 0
        /\ FieldCount(inverted_index, <<"p", "i", "c">>, ret[i].component_id) > 0

FieldNameSet == {"id", "name", "description", "category", "keywords"}

\* the keys of the index that score for the query token q in the given mode:
\* q itself, and in PARTIAL mode every key that contains q or that q contains
ContributingKeys(inv, q, mode) ==
    { inv[n].token : n \in { j \in 1..Len(inv) :
        \/ inv[j].token = q
        \/ mode = "PARTIAL" /\ (IsSubstring(q, inv[j].token) \/ IsSubstring(inv[j].token, q)) } }

\* the field names of comp_id under every key that scores for a token of the query
ContributedFields(inv, query, mode, comp_id) ==
    UNION { FieldNames(inv, t, comp_id) :
              t \in UNION { ContributingKeys(inv, q, mode) : q \in TokenSet(Lower(query)) } }

\* C24: matched_fields of every result has no duplicates, is not empty, holds
\* only names among id, name, description, category, keywords, and is the
\* union of the field names recorded for the record under every key of the
\* index that scored for it, in either pass, over all query tokens.
C24_MatchedFields ==
    SearchDone =>
        \A i \in 1..Len(ret) :
            LET mf == ret[i].matched_fields
            IN /\ \A a, b \in 1..Len(mf) : a # b => mf[a] # mf[b]
               /\ mf # <<>>
               /\ Range(mf) \subseteq FieldNameSet
               /\ Range(mf) = ContributedFields(inverted_index, args.query, args.mode,
                                                ret[i].component_id)

\* a result whose matched_fields joins the fields of two query tokens, neither
\* of which gives all of them, and a result matched by a keyword
C24_Witness ==
    /\ SearchDone
    /\ \E i \in 1..Len(ret) :
        LET id == ret[i].component_id
            q == TokenSet(Lower(args.query))
        IN /\ Cardinality(q) = 2
           /\ \A t \in q : /\ FieldNames(inverted_index, t, id) # {}
                           /\ FieldNames(inverted_index, t, id) # Range(ret[i].matched_fields)
           /\ Len(ret[i].matched_fields) >= 3
    /\ \E i \in 1..Len(ret) : \E k \in 1..Len(ret[i].matched_fields) :
            ret[i].matched_fields[k] = "keywords"

\* an indexed token of comp scores for a token of the query in the given mode
Matches(comp, query, mode) ==
    \E t \in IndexedTokens(comp), q \in TokenSet(Lower(query)) :
        \/ t = q
        \/ mode = "PARTIAL" /\ (IsSubstring(q, t) \/ IsSubstring(t, q))

\* a tag of comp is, or contains, a token of the query
TagHasQueryToken(comp, query) ==
    \E tag \in Range(GetList(comp, "tags")), q \in TokenSet(Lower(query)) : IsSubstring(q, tag)

\* C25: tags do not take part in free-text matching: an id none of whose
\* records has an id, name, description, category or keywords token that
\* matches a query token is not returned, in either mode, whatever its tags
\* are, and no result has tags among its matched_fields.
C25_TagsNotSearched ==
    SearchDone =>
        /\ \A k \in 1..Len(components) :
            (~\E j \in 1..Len(components) :
                /\ components[j].id = components[k].id
                /\ Matches(components[j], args.query, args.mode))
                    => components[k].id \notin Ids(ret)
        /\ \A i \in 1..Len(ret) : "tags" \notin Range(ret[i].matched_fields)

\* a search that returns a record and does not return another one, which has
\* a tag equal to a token of the query and passes the tag filter
C25_Witness ==
    /\ SearchDone
    /\ Len(ret) >= 1
    /\ \E k \in 1..Len(components) :
        /\ TagHasQueryToken(components[k], args.query)
        /\ PassesTagFilter(components[k], args.tag_filter)
        /\ components[k].id \notin Ids(ret)

\* text.replace("**", ""): the text without its emphasis markers
RECURSIVE StripMarkers(_)
StripMarkers(text) ==
    IF Len(text) < 2 THEN text
    ELSE IF SubSeq(text, 1, 2) = Marker THEN StripMarkers(SubSeq(text, 3, Len(text)))
    ELSE <<Head(text)>> \o StripMarkers(Tail(text))

HasAsterisk(text) == \E i \in 1..Len(text) : text[i] = "*"

\* some token of the query occurs in text, whatever the case of the letters
TokenOccurs(query, text) ==
    \E q \in TokenSet(Lower(query)) : IsSubstring(q, Lower(text))

\* C26: for every result whose name and description hold no asterisk, the
\* keys of highlights are among name and description; a key is there exactly
\* when a token of the query occurs in the text of the field, case ignored;
\* a highlight without its "**" markers is the text of the field, so its
\* tokens are tokens of the field.
C26_Highlights ==
    SearchDone =>
        \A i \in 1..Len(ret) :
            (~HasAsterisk(ret[i].name) /\ ~HasAsterisk(ret[i].description)) =>
                /\ DOMAIN ret[i].highlights \subseteq {"name", "description"}
                /\ \A f \in {"name", "description"} :
                    /\ f \in DOMAIN ret[i].highlights <=> TokenOccurs(args.query, ret[i][f])
                    /\ f \in DOMAIN ret[i].highlights =>
                        /\ StripMarkers(ret[i].highlights[f]) = ret[i][f]
                        /\ ret[i].highlights[f] # ret[i][f]
                        /\ TokenSet(StripMarkers(ret[i].highlights[f])) \subseteq TokenSet(ret[i][f])

\* the search for "art chart" that marks "art" inside the marked "Chart" of
\* the description of st.chart, the capital letter kept, or marks "art" alone
\* when it is the token that comes first
C26_Witness ==
    /\ SearchDone
    /\ args.query = <<"a", "r", "t", " ", "c", "h", "a", "r", "t">>
    /\ \E i \in 1..Len(ret) :
        /\ ret[i].description = <<"C", "h", "a", "r", "t">>
        /\ DOMAIN ret[i].highlights = {"name", "description"}
        /\ ret[i].highlights.description \in
            {<<"*", "*", "C", "h", "*", "*", "a", "r", "t", "*", "*", "*", "*">>,
             <<"C", "h", "*", "*", "a", "r", "t", "*", "*">>}
    /\ \E i \in 1..Len(ret) : "name" \notin DOMAIN ret[i].highlights

TokenizeDone == pc = "done" /\ op = "_tokenize"

\* text[i..j] is a maximal run of characters of class
MaximalRun(text, i, j, class) ==
    /\ i <= j
    /\ \A k \in i..j : text[k] \in class
    /\ i > 1 => text[i - 1] \notin class
    /\ j < Len(text) => text[j + 1] \notin class

\* C27: the tokenizer returns a list without duplicates of tokens that are
\* their own lower case; a string is in it exactly when it is a maximal run of
\* word characters of the lower-cased text or two adjacent characters of a
\* run of ideographic or syllabic characters; an empty text or a text of
\* white space gives no token, and a run of one such character gives no
\* token of two characters.
C27_Tokenizer ==
    TokenizeDone =>
        LET text == Lower(args.text)
            n == Len(text)
            words == { SubSeq(text, i, j) : <<i, j>> \in
                        { p \in (1..n) \X (1..n) : MaximalRun(text, p[1], p[2], WordChars) } }
            pairs == { SubSeq(text, i, i + 1) : i \in
                        { k \in 1..(n - 1) : text[k] \in JapaneseChars
                                                /\ text[k + 1] \in JapaneseChars } }
        IN /\ \A a, b \in 1..Len(ret) : a # b => ret[a] # ret[b]
           /\ \A a \in 1..Len(ret) : Lower(ret[a]) = ret[a]
           /\ Range(ret) = words \cup pairs
           /\ (\A k \in 1..n : text[k] = " ") => ret = <<>>
           /\ (\A i, j \in 1..n : MaximalRun(text, i, j, JapaneseChars) => i = j)
                => Range(ret) = words

\* the tokens of "A" and the two ideographs: the word of three characters,
\* lower-cased, and the pair of ideographs
C27_Witness ==
    /\ TokenizeDone
    /\ args.text = <<"A", "NYUU", "RYOKU">>
    /\ Range(ret) = {<<"a", "NYUU", "RYOKU">>, <<"NYUU", "RYOKU">>}
    /\ Len(ret) = 2

\* s[-n:] for n > 0: the last n elements of s
LastN(s, n) == IF Len(s) > n THEN SubSeq(s, Len(s) - n + 1, Len(s)) ELSE s

\* C28: after any sequence of set and import_state calls the history holds
\* at most 100 entries, and they are the latest of the (key, value) of the
\* sets performed, in the order of the calls, one entry for each set.
C28_HistoryMostRecent ==
    /\ "history" \in DOMAIN session_state
    /\ session_state["history"].t = "list"
    /\ Len(session_state["history"].v) <= HistoryCap
    /\ session_state["history"].v = LastN(recorded, HistoryCap)

\* the same, for the sequences in which no set is a set of the key history
C28_HistoryMostRecent_OtherKeys ==
    (\A i \in 1..Len(recorded) : recorded[i].key # "history") => C28_HistoryMostRecent

\* more sets than the cap were performed, none of the key history: the
\* history is full, its first entry is not the first set, its last entry is
\* the set of favorites that an import performed last
C28_Witness ==
    /\ pc = "done" /\ op = "import_state"
    /\ Len(recorded) = HistoryCap + 2
    /\ \A i \in 1..Len(recorded) : recorded[i].key # "history"
    /\ Len(session_state["history"].v) = HistoryCap
    /\ session_state["history"].v[HistoryCap] = [key |-> "favorites", value |-> List(<<"b">>)]
    /\ session_state["history"].v[HistoryCap - 1] = [key |-> "theme", value |-> Str("dark")]
    /\ session_state["history"].v[HistoryCap - 2] = [key |-> "test_key", value |-> Str("test_value")]

Favorites == session_state["favorites"].v

ToggleStep == pc = "idle" /\ pc' = "done" /\ op' = "toggle_favorite"

\* C29: from the initial or a reset state, through toggle_favorite and
\* reset_state calls, the favorites list never holds an id twice;
\* toggle_favorite(x) returns True exactly when x was no favorite before the
\* call; is_favorite(x) right after the call is the value returned; the
\* other ids are favorites after the call exactly when they were before; a
\* second toggle of x right after gives the set of favorites of before the
\* first.
C29_ToggleFavorite ==
    [][ToggleStep =>
        LET x == args'.component_id
            before == Range(Favorites)
            after == Favorites'
            again == ToggleFavoriteOn(session_state', x)
        IN /\ \A i, j \in 1..Len(after) : i # j => after[i] # after[j]
           /\ ret' = Bool(x \notin before)
           /\ IsFavoriteOn(session_state', x) = ret'
           /\ \A y \in ToggledIds \ {x} : y \in Range(after) <=> y \in before
           /\ Range(again.state["favorites"].v) = before
           /\ again.ret = Bool(x \in before)]_vars

\* the third call of toggle a, toggle b, toggle a: it returns False and b
\* stays a favorite
C29_Witness ==
    /\ pc = "done" /\ op = "toggle_favorite"
    /\ args.component_id = "a"
    /\ ret = Bool(FALSE)
    /\ Favorites = <<"b">>
    /\ n_calls = 3

ImportStep == pc = "idle" /\ pc' = "done" /\ op' = "import_state"

\* C30: import_state changes all or nothing: when it returns False no key of
\* the session state and no entry of the history was changed by the call;
\* when it returns True every key of the object but timestamp holds the
\* value the object gives it.
C30_ImportAllOrNothing ==
    [][ImportStep =>
        /\ ret' = Bool(FALSE) => session_state' = session_state
        /\ ret' = Bool(TRUE) =>
            /\ args'.document.kind = "object"
            /\ \A i \in 1..Len(args'.document.items) :
                LET item == args'.document.items[i]
                IN item.key # "timestamp" =>
                    /\ item.key \in DOMAIN session_state'
                    /\ session_state'[item.key] = item.value]_vars

====
